---- MODULE Spec2Model ----
(***************************************************************************)
(* A model of bngo (Bayesian networks in Go): the DAG container, the       *)
(* discrete factor algebra, tabular CPDs and discrete variable             *)
(* elimination, and the PC structure learner.                              *)
(*                                                                         *)
(* Variable and node names are Go strings that the code only compares and  *)
(* sorts (sort.Strings).  They are modelled as the integers 1, 2, 3, ...   *)
(* standing for "A" < "B" < "C" < ..., so that lexicographic order is <.   *)
(*                                                                         *)
(* float64 values are modelled as exact rationals <<numerator,             *)
(* denominator>> in lowest terms.                                          *)
(***************************************************************************)
EXTENDS Integers, Sequences, FiniteSets, TLC

VARIABLES
    dag,        \* graph.DAG: [nodes, edges (parent -> children), parents (child -> parents)]
    dagRet,     \* what the last AddEdge or TopologicalSort returned
    allAddsOk,  \* TRUE while every AddEdge so far has returned nil
    fA,         \* a DiscreteFactor, the receiver of the factor calls
    facRet,     \* the last factor call: its arguments and what it returned
    cpd,        \* a TabularCPD, the receiver of the CPD calls
    cpdRet,     \* the last CPD call: its arguments and what it returned
    net,        \* a models.BayesianNetwork, the model of a VariableElimination
    veRet,      \* the last Query or MAP: its arguments and what it returned
    bnRet,      \* the last Predict on the network: its arguments and what it returned
    sim,        \* a Simulate call in progress: its position and the samples so far
    fit,        \* the last Fit on the network: its data and whether it returned an error
    pc,         \* a run of PCEstimator.Estimate: its position, the skeleton, the arrows
    mix         \* the last query on a mixed network: its arguments and what it returned

dagVars == <<dag, dagRet, allAddsOk>>

facVars == <<fA, facRet>>

cpdVars == <<cpd, cpdRet>>

veVars == <<net, veRet>>

bnVars == <<bnRet>>

simVars == <<sim>>

fitVars == <<fit>>

pcVars == <<pc>>

mixVars == <<mix>>

vars == <<dag, dagRet, allAddsOk, fA, facRet, cpd, cpdRet, net, veRet, bnRet, sim, fit, pc, mix>>

\* the variables each state machine leaves alone
notDag == <<facVars, cpdVars, veVars, bnVars, simVars, fitVars, pcVars, mixVars>>

notFac == <<dagVars, cpdVars, veVars, bnVars, simVars, fitVars, pcVars, mixVars>>

notCpd == <<dagVars, facVars, veVars, bnVars, simVars, fitVars, pcVars, mixVars>>

notVE == <<dagVars, facVars, cpdVars, bnVars, simVars, fitVars, pcVars, mixVars>>

notBN == <<dagVars, facVars, cpdVars, veRet, simVars, fitVars, pcVars, mixVars>>

notSim == <<dagVars, facVars, cpdVars, bnVars, veRet, fitVars, pcVars, mixVars>>

notFit == <<dagVars, facVars, cpdVars, bnVars, simVars, veRet, pcVars, mixVars>>

notPC == <<dagVars, facVars, cpdVars, veVars, bnVars, simVars, fitVars, mixVars>>

notMix == <<dagVars, facVars, cpdVars, bnVars, simVars, fitVars, pcVars, veRet>>

-----------------------------------------------------------------------------
(* Bounds *)

\* number of distinct node names used in the DAG calls
NumNames == 3

Names == 1..NumNames

\* the largest number of states of a discrete variable
MaxCard == 2

\* the largest number of variables of an input factor
MaxFactorVars == 2

\* the largest number of parents of an input CPD
MaxParents == 2

\* the largest number of evidence variables of a Query or MAP
MaxEvidence == 1

\* the variable names the factors are built over
VarNames == {1, 2, 3}

-----------------------------------------------------------------------------
(* Generic helpers *)

Min(S) == CHOOSE x \in S : \A y \in S : x <= y

IndexOf(s, x) == CHOOSE i \in DOMAIN s : s[i] = x

Max(S) == CHOOSE x \in S : \A y \in S : x >= y

\* sort.Strings on a collection without duplicates: the ascending sequence
RECURSIVE SortStrings(_)
SortStrings(S) ==
    IF S = {} THEN <<>>
    ELSE LET m == Min(S) IN <<m>> \o SortStrings(S \ {m})

Range(s) == {s[i] : i \in DOMAIN s}

\* the lists of distinct elements of S that are at most n long
RECURSIVE ListsOver(_, _)
ListsOver(S, n) ==
    IF n = 0 THEN {<<>>}
    ELSE LET shorter == ListsOver(S, n - 1)
         IN  shorter \cup UNION {{Append(l, x) : x \in S \ Range(l)} : l \in shorter}

\* the orders in which a range statement may walk a map with key set S
OrdersOf(S) == {l \in ListsOver(S, Cardinality(S)) : Len(l) = Cardinality(S)}

\* sort.Strings on a slice (duplicates are kept)
RECURSIVE SortSlice(_)
SortSlice(s) ==
    IF s = <<>> THEN <<>>
    ELSE LET m == Min(Range(s))
             i == CHOOSE k \in DOMAIN s : s[k] = m /\ \A l \in 1..(k - 1) : s[l] # m
         IN  <<m>> \o SortSlice(SubSeq(s, 1, i - 1) \o SubSeq(s, i + 1, Len(s)))

-----------------------------------------------------------------------------
(* graph.DAG *)

NewDAG == [nodes |-> {}, edges |-> <<>>, parents |-> <<>>]

\* d.edges[node] / d.parents[node]: a missing key reads as the nil (empty) map
EdgesOf(d, node) == IF node \in DOMAIN d.edges THEN d.edges[node] ELSE {}

ParentsOf(d, node) == IF node \in DOMAIN d.parents THEN d.parents[node] ELSE {}

AddNode(d, node) ==
    IF node \in d.nodes
    THEN d
    ELSE [nodes   |-> d.nodes \cup {node},
          edges   |-> [n \in DOMAIN d.edges \cup {node} |->
                          IF n = node THEN {} ELSE d.edges[n]],
          parents |-> [n \in DOMAIN d.parents \cup {node} |->
                          IF n = node THEN {} ELSE d.parents[n]]]

\* The DFS marks node, then visits every parent; todo is the part of the
\* range loop over d.parents[node] still to run.  The visited set it ends
\* with does not depend on the iteration order of the map.
RECURSIVE ancestorsHelper(_, _, _)
ancestorsHelper(d, todo, visited) ==
    IF todo = {} THEN visited
    ELSE LET node == Min(todo)
             rest == todo \ {node}
         IN  IF node \in visited
             THEN ancestorsHelper(d, rest, visited)
             ELSE ancestorsHelper(d, rest,
                      ancestorsHelper(d, ParentsOf(d, node), visited \cup {node}))

Ancestors(d, node) == SortStrings(ancestorsHelper(d, {node}, {}) \ {node})

\* a slip: the walk stops at the children and never descends further
descendantsHelper_ChildrenOnly(d, todo, visited) ==
    visited \cup todo \cup UNION {EdgesOf(d, node) : node \in todo}

RECURSIVE descendantsHelper(_, _, _)
descendantsHelper(d, todo, visited) ==
    IF todo = {} THEN visited
    ELSE LET node == Min(todo)
             rest == todo \ {node}
         IN  IF node \in visited
             THEN descendantsHelper(d, rest, visited)
             ELSE descendantsHelper(d, rest,
                      descendantsHelper(d, EdgesOf(d, node), visited \cup {node}))

Descendants(d, node) == SortStrings(descendantsHelper(d, {node}, {}) \ {node})

wouldCreateCycle(d, parent, child) ==
    LET ancestors == Ancestors(d, parent)
    IN  \E i \in DOMAIN ancestors : ancestors[i] = child

\* a slip: the edge is inserted before the cycle check
AddEdge_InsertsBeforeCheck(d, parent, child) ==
    LET d2 == AddNode(AddNode(d, parent), child)
        d3 == [d2 EXCEPT !.edges[parent] = @ \cup {child},
                         !.parents[child] = @ \cup {parent}]
    IN  [err |-> wouldCreateCycle(d2, parent, child), dag |-> d3]

\* AddEdge: the returned error (TRUE = cycle error) and the DAG it leaves
AddEdge(d, parent, child) ==
    LET d2 == AddNode(AddNode(d, parent), child)
    IN  IF wouldCreateCycle(d2, parent, child)
        THEN [err |-> TRUE, dag |-> d2]
        ELSE [err |-> FALSE,
              dag |-> [d2 EXCEPT !.edges[parent] = @ \cup {child},
                                 !.parents[child] = @ \cup {parent}]]

RemoveEdge(d, parent, child) ==
    [d EXCEPT !.edges = [n \in DOMAIN d.edges |->
                            IF n = parent THEN d.edges[n] \ {child} ELSE d.edges[n]],
              !.parents = [n \in DOMAIN d.parents |->
                            IF n = child THEN d.parents[n] \ {parent} ELSE d.parents[n]]]

HasEdge(d, parent, child) == child \in EdgesOf(d, parent)

\* The order in which a Go range statement walks a map is unspecified: iter
\* is the order one call happens to see, a permutation of the names.
MapOrders == {f \in [1..NumNames -> Names] : \A i, j \in 1..NumNames : f[i] = f[j] => i = j}

\* the keys in S in the order iter walks them
RangeOver(S, iter) ==
    LET F[i \in 0..NumNames] ==
            IF i = 0 THEN <<>>
            ELSE IF iter[i] \in S THEN Append(F[i - 1], iter[i]) ELSE F[i - 1]
    IN  F[NumNames]

\* a slip: the queue is left in arrival order
SortQueue_Unsorted(queue) == queue

\* sort.Strings(queue)
SortQueue(queue) == SortSlice(queue)

\* "for child := range d.edges[node]": decrement, append to the queue at zero
RECURSIVE kahnRelax(_, _, _)
kahnRelax(children, inDegree, queue) ==
    IF children = <<>> THEN [inDegree |-> inDegree, queue |-> queue]
    ELSE LET child == Head(children)
             deg2  == [inDegree EXCEPT ![child] = @ - 1]
         IN  kahnRelax(Tail(children), deg2,
                       IF deg2[child] = 0 THEN Append(queue, child) ELSE queue)

RECURSIVE kahnLoop(_, _, _, _, _)
kahnLoop(d, iter, inDegree, queue, result) ==
    IF queue = <<>> THEN result
    ELSE LET sorted == SortQueue(queue)
             node   == sorted[1]
             r      == kahnRelax(RangeOver(EdgesOf(d, node), iter), inDegree, Tail(sorted))
         IN  kahnLoop(d, iter, r.inDegree, r.queue, Append(result, node))

TopologicalSort(d, iter) ==
    LET inDegree == [n \in d.nodes |-> Cardinality(ParentsOf(d, n))]
        queue    == RangeOver({n \in d.nodes : inDegree[n] = 0}, iter)
        result   == kahnLoop(d, iter, inDegree, queue, <<>>)
    IN  IF Len(result) # Cardinality(d.nodes)
        THEN [err |-> TRUE, order |-> <<>>]
        ELSE [err |-> FALSE, order |-> result]

-----------------------------------------------------------------------------
(* float64 arithmetic, exact: a value is <<n, d>> with d > 0, in lowest terms *)

RECURSIVE GCD(_, _)
GCD(a, b) == IF b = 0 THEN a ELSE GCD(b, a % b)

Abs(x) == IF x < 0 THEN -x ELSE x

Rat(n, d) == LET g == GCD(Abs(n), d) IN <<n \div g, d \div g>>

RZero == <<0, 1>>

ROne == <<1, 1>>

\* the operations cancel common factors before they multiply, which keeps
\* the intermediate integers small
RAdd(a, b) ==
    LET g == GCD(a[2], b[2])
    IN  Rat(a[1] * (b[2] \div g) + b[1] * (a[2] \div g), (a[2] \div g) * b[2])

RMul(a, b) ==
    LET x == Rat(a[1], b[2])
        y == Rat(b[1], a[2])
    IN  <<x[1] * y[1], x[2] * y[2]>>

\* a / b for b > 0
RDiv(a, b) == RMul(a, <<b[2], b[1]>>)

\* a > b; a denominator of 0 stands for an infinite value (see NegInf)
RGreater(a, b) ==
    LET g == GCD(a[2], b[2])
    IN  IF g = 0 THEN a[1] > b[1]
        ELSE a[1] * (b[2] \div g) > b[1] * (a[2] \div g)

\* "sum := 0.0; for _, v := range values { sum += v }"
RSum(values) ==
    LET F[i \in 0..Len(values)] == IF i = 0 THEN RZero ELSE RAdd(F[i - 1], values[i])
    IN  F[Len(values)]

-----------------------------------------------------------------------------
(* factors.DiscreteFactor *)

\* a Go map read: a missing key reads as 0
MapGet(m, k) == IF k \in DOMAIN m THEN m[k] ELSE 0

\* m[k] = x
MapSet(m, k, x) == [j \in DOMAIN m \cup {k} |-> IF j = k THEN x ELSE m[j]]

EmptyMap == <<>>

NoFactor == [Variables |-> <<>>, Cardinality |-> EmptyMap, Values |-> <<>>]

\* what a call returns: a factor, an error, or a run-time panic (an index out
\* of range) that unwinds the call
RetOk(f) == [status |-> "ok", factor |-> f]

RetErr == [status |-> "err", factor |-> NoFactor]

RetPanic == [status |-> "panic", factor |-> NoFactor]

\* "size := 1; for _, v := range variables { size *= cardinality[v] }"
SizeOf(variables, cardinality) ==
    LET F[i \in 0..Len(variables)] ==
            IF i = 0 THEN 1 ELSE F[i - 1] * MapGet(cardinality, variables[i])
    IN  F[Len(variables)]

\* make([]float64, size)
Zeros(size) == [i \in 1..size |-> RZero]

NewDiscreteFactor(variables, cardinality, values) ==
    IF Len(values) # SizeOf(variables, cardinality)
    THEN RetErr
    ELSE RetOk([Variables |-> variables, Cardinality |-> cardinality, Values |-> values])

\* a slip: the loop runs forwards, so the first variable varies fastest
projectAssignmentToIndex_FirstFastest(f, assignment) ==
    LET n == Len(f.Variables)
        F[k \in 0..n] ==
            IF k = 0 THEN [idx |-> 0, stride |-> 1]
            ELSE LET v    == f.Variables[k]
                     prev == F[k - 1]
                 IN  [idx    |-> prev.idx + MapGet(assignment, v) * prev.stride,
                      stride |-> prev.stride * MapGet(f.Cardinality, v)]
    IN  F[n].idx

\* the loop "for i := len-1; i >= 0; i--" after its last k rounds
projectAssignmentToIndex(f, assignment) ==
    LET n == Len(f.Variables)
        F[k \in 0..n] ==
            IF k = 0 THEN [idx |-> 0, stride |-> 1]
            ELSE LET v    == f.Variables[n - k + 1]
                     prev == F[k - 1]
                 IN  [idx    |-> prev.idx + MapGet(assignment, v) * prev.stride,
                      stride |-> prev.stride * MapGet(f.Cardinality, v)]
    IN  F[n].idx

assignmentToIndex(varList, assignment, cardinality) ==
    LET n == Len(varList)
        F[k \in 0..n] ==
            IF k = 0 THEN [idx |-> 0, stride |-> 1]
            ELSE LET v    == varList[n - k + 1]
                     prev == F[k - 1]
                 IN  [idx    |-> prev.idx + MapGet(assignment, v) * prev.stride,
                      stride |-> prev.stride * MapGet(cardinality, v)]
    IN  F[n].idx

\* The recursive helpers all walk the assignments the same way:
\*   v := vars[depth]; for i := 0; i < cardinality[v]; i++ { assignment[v] = i; recurse }
\* Leaves is the sequence of assignment maps their leaves (depth == len(vars))
\* see, in the order they are visited, starting from the map passed in.
RECURSIVE Leaves(_, _, _, _)
Leaves(depth, varList, cardinality, assignment) ==
    IF depth = Len(varList) THEN <<assignment>>
    ELSE LET v == varList[depth + 1]
             c == MapGet(cardinality, v)
             G[i \in 0..(IF c > 0 THEN c ELSE 0)] ==
                 IF i = 0 THEN <<>>
                 ELSE G[i - 1] \o Leaves(depth + 1, varList, cardinality, MapSet(assignment, v, i - 1))
         IN  G[IF c > 0 THEN c ELSE 0]

\* a slice index expression: out of range panics
InRange(values, idx) == idx >= 0 /\ idx < Len(values)

\* a helper's running state: the result slice, or a panic
Running(result) == [panic |-> FALSE, values |-> result]

Panicked == [panic |-> TRUE, values |-> <<>>]

multiplyHelper(f, varList, cardinality, other, result) ==
    LET leaves == Leaves(0, varList, cardinality, EmptyMap)
        F[k \in 0..Len(leaves)] ==
            IF k = 0 THEN Running(result)
            ELSE LET prev == F[k - 1]
                     idx  == assignmentToIndex(varList, leaves[k], cardinality)
                     idx1 == projectAssignmentToIndex(f, leaves[k])
                     idx2 == projectAssignmentToIndex(other, leaves[k])
                 IN  IF prev.panic THEN Panicked
                     ELSE IF InRange(prev.values, idx) /\ InRange(f.Values, idx1)
                             /\ InRange(other.Values, idx2)
                     THEN Running([prev.values EXCEPT
                              ![idx + 1] = RMul(f.Values[idx1 + 1], other.Values[idx2 + 1])])
                     ELSE Panicked
    IN  F[Len(leaves)]

\* the cardinality maps merged; mismatch when a key of both has two values
MergeCardinality(f, other) ==
    [k \in DOMAIN f.Cardinality \cup DOMAIN other.Cardinality |->
        IF k \in DOMAIN other.Cardinality THEN other.Cardinality[k] ELSE f.Cardinality[k]]

CardinalityMismatch(f, other) ==
    \E k \in DOMAIN f.Cardinality \cap DOMAIN other.Cardinality :
        f.Cardinality[k] # other.Cardinality[k]

Multiply(f, other) ==
    LET newVars == SortStrings(Range(f.Variables) \cup Range(other.Variables))
        newCard == MergeCardinality(f, other)
        size    == SizeOf(newVars, newCard)
        h       == multiplyHelper(f, newVars, newCard, other, Zeros(size))
    IN  IF CardinalityMismatch(f, other) THEN RetErr
        ELSE IF h.panic THEN RetPanic
        ELSE NewDiscreteFactor(newVars, newCard, h.values)

\* the variables of f that are kept, in f's order
KeepVars(f, removed) ==
    LET F[i \in 0..Len(f.Variables)] ==
            IF i = 0 THEN <<>>
            ELSE IF f.Variables[i] \in removed THEN F[i - 1]
            ELSE Append(F[i - 1], f.Variables[i])
    IN  F[Len(f.Variables)]

RestrictCard(f, newVars) == [v \in Range(newVars) |-> MapGet(f.Cardinality, v)]

\* a slip: "=" for "+=", the last state of a removed variable wins
marginalizeHelper_Overwrites(f, varList, newVars, newCard, result) ==
    LET leaves == Leaves(0, varList, f.Cardinality, EmptyMap)
        F[k \in 0..Len(leaves)] ==
            IF k = 0 THEN Running(result)
            ELSE LET prev   == F[k - 1]
                     oldIdx == projectAssignmentToIndex(f, leaves[k])
                     newIdx == assignmentToIndex(newVars, leaves[k], newCard)
                 IN  IF prev.panic THEN Panicked
                     ELSE IF InRange(prev.values, newIdx) /\ InRange(f.Values, oldIdx)
                     THEN Running([prev.values EXCEPT ![newIdx + 1] = f.Values[oldIdx + 1]])
                     ELSE Panicked
    IN  F[Len(leaves)]

marginalizeHelper(f, varList, newVars, newCard, result) ==
    LET leaves == Leaves(0, varList, f.Cardinality, EmptyMap)
        F[k \in 0..Len(leaves)] ==
            IF k = 0 THEN Running(result)
            ELSE LET prev   == F[k - 1]
                     oldIdx == projectAssignmentToIndex(f, leaves[k])
                     newIdx == assignmentToIndex(newVars, leaves[k], newCard)
                 IN  IF prev.panic THEN Panicked
                     ELSE IF InRange(prev.values, newIdx) /\ InRange(f.Values, oldIdx)
                     THEN Running([prev.values EXCEPT
                              ![newIdx + 1] = RAdd(@, f.Values[oldIdx + 1])])
                     ELSE Panicked
    IN  F[Len(leaves)]

\* variables: the set of the names in the list passed (toRemove)
Marginalize(f, variables) ==
    LET newVars == KeepVars(f, variables)
        newCard == RestrictCard(f, newVars)
        size    == SizeOf(newVars, newCard)
        h       == marginalizeHelper(f, f.Variables, newVars, newCard, Zeros(size))
    IN  IF Len(newVars) = 0
        THEN NewDiscreteFactor(<<>>, EmptyMap, <<RSum(f.Values)>>)
        ELSE IF h.panic THEN RetPanic
        ELSE NewDiscreteFactor(newVars, newCard, h.values)

\* a slip: the evidence is not copied into the assignment the walk starts from
reduceHelper_DropsEvidence(f, varList, assignment, newCard, result) ==
    LET leaves == Leaves(0, varList, newCard, EmptyMap)
        F[k \in 0..Len(leaves)] ==
            IF k = 0 THEN Running(result)
            ELSE LET prev   == F[k - 1]
                     oldIdx == projectAssignmentToIndex(f, leaves[k])
                     newIdx == assignmentToIndex(varList, leaves[k], newCard)
                 IN  IF prev.panic THEN Panicked
                     ELSE IF InRange(prev.values, newIdx) /\ InRange(f.Values, oldIdx)
                     THEN Running([prev.values EXCEPT ![newIdx + 1] = f.Values[oldIdx + 1]])
                     ELSE Panicked
    IN  F[Len(leaves)]

reduceHelper(f, varList, assignment, newCard, result) ==
    LET leaves == Leaves(0, varList, newCard, assignment)
        F[k \in 0..Len(leaves)] ==
            IF k = 0 THEN Running(result)
            ELSE LET prev   == F[k - 1]
                     oldIdx == projectAssignmentToIndex(f, leaves[k])
                     newIdx == assignmentToIndex(varList, leaves[k], newCard)
                 IN  IF prev.panic THEN Panicked
                     ELSE IF InRange(prev.values, newIdx) /\ InRange(f.Values, oldIdx)
                     THEN Running([prev.values EXCEPT ![newIdx + 1] = f.Values[oldIdx + 1]])
                     ELSE Panicked
    IN  F[Len(leaves)]

\* evidence: a map from names to states.  The first loop of the code only
\* looks the evidence keys up and changes nothing.
Reduce(f, evidence) ==
    LET newVars == KeepVars(f, DOMAIN evidence)
        newCard == RestrictCard(f, newVars)
        size    == SizeOf(newVars, newCard)
        idx     == projectAssignmentToIndex(f, evidence)
        h       == reduceHelper(f, newVars, evidence, newCard, Zeros(size))
    IN  IF Len(newVars) = 0
        THEN IF InRange(f.Values, idx)
             THEN NewDiscreteFactor(<<>>, EmptyMap, <<f.Values[idx + 1]>>)
             ELSE RetPanic
        ELSE IF h.panic THEN RetPanic
        ELSE NewDiscreteFactor(newVars, newCard, h.values)

-----------------------------------------------------------------------------
(* factors.TabularCPD *)

\* a <= b
RLeq(a, b) == a[1] * b[2] <= b[1] * a[2]

NoCPD == [Variable |-> 0, VariableCard |-> 0, Evidence |-> <<>>, EvidenceCard |-> EmptyMap,
          Values |-> <<>>]

\* NewTabularCPD returns an error (TRUE) or builds the CPD
NewTabularCPDFails(variable, variableCard, values, evidence, evidenceCard) ==
    \/ Len(values) # SizeOf(evidence, evidenceCard)
    \/ \E i \in DOMAIN values :
          \/ Len(values[i]) # variableCard
          \/ ~RLeq(Rat(999, 1000), RSum(values[i]))
          \/ ~RLeq(RSum(values[i]), Rat(1001, 1000))

\* "rowIdx := 0; stride := 1; for i := len(cpd.Evidence)-1; i >= 0; i--"
cpdRowIndex(c, assignment) ==
    LET n == Len(c.Evidence)
        F[k \in 0..n] ==
            IF k = 0 THEN [idx |-> 0, stride |-> 1]
            ELSE LET e    == c.Evidence[n - k + 1]
                     prev == F[k - 1]
                 IN  [idx    |-> prev.idx + MapGet(assignment, e) * prev.stride,
                      stride |-> prev.stride * MapGet(c.EvidenceCard, e)]
    IN  F[n].idx

\* a slip: the row index is taken over the parents in sorted order
cpdRowIndex_SortedParents(c, assignment) ==
    LET ev == SortSlice(c.Evidence)
        n  == Len(ev)
        F[k \in 0..n] ==
            IF k = 0 THEN [idx |-> 0, stride |-> 1]
            ELSE LET e    == ev[n - k + 1]
                     prev == F[k - 1]
                 IN  [idx    |-> prev.idx + MapGet(assignment, e) * prev.stride,
                      stride |-> prev.stride * MapGet(c.EvidenceCard, e)]
    IN  F[n].idx

\* the row index computed at a leaf of toFactorHelper
toFactorRowIndex(c, assignment) == cpdRowIndex(c, assignment)

toFactorHelper(c, varList, card, result) ==
    LET leaves == Leaves(0, varList, card, EmptyMap)
        F[k \in 0..Len(leaves)] ==
            IF k = 0 THEN Running(result)
            ELSE LET prev   == F[k - 1]
                     rowIdx == toFactorRowIndex(c, leaves[k])
                     colIdx == MapGet(leaves[k], c.Variable)
                     resIdx == assignmentToIndex(varList, leaves[k], card)
                 IN  IF prev.panic THEN Panicked
                     ELSE IF InRange(c.Values, rowIdx) /\ InRange(prev.values, resIdx)
                     THEN IF InRange(c.Values[rowIdx + 1], colIdx)
                          THEN Running([prev.values EXCEPT
                                   ![resIdx + 1] = c.Values[rowIdx + 1][colIdx + 1]])
                          ELSE Panicked
                     ELSE Panicked
    IN  F[Len(leaves)]

ToFactor(c) ==
    LET allVars == SortSlice(Append(c.Evidence, c.Variable))
        card    == MapSet(c.EvidenceCard, c.Variable, c.VariableCard)
        size    == SizeOf(allVars, card)
        h       == toFactorHelper(c, allVars, card, Zeros(size))
    IN  IF h.panic THEN RetPanic ELSE NewDiscreteFactor(allVars, card, h.values)

\* GetValue: status "ok" with the value, "err", or "panic"
GetValue(c, varState, evidenceValues) ==
    LET rowIdx == cpdRowIndex(c, evidenceValues)
    IN  IF varState < 0 \/ varState >= c.VariableCard
        THEN [status |-> "err", value |-> RZero]
        ELSE IF \E i \in DOMAIN c.Evidence : c.Evidence[i] \notin DOMAIN evidenceValues
        THEN [status |-> "err", value |-> RZero]
        ELSE IF ~InRange(c.Values, rowIdx)
        THEN [status |-> "panic", value |-> RZero]
        ELSE [status |-> "ok", value |-> c.Values[rowIdx + 1][varState + 1]]

-----------------------------------------------------------------------------
(* DiscreteFactor.Normalize and MaxMarginalize *)

\* a slip: the rescaling loop starts at the second value
Normalize_SkipsFirst(f) ==
    LET sum == RSum(f.Values)
    IN  IF sum = RZero
        THEN RetErr
        ELSE RetOk([f EXCEPT !.Values = [i \in DOMAIN f.Values |->
                        IF i = 1 THEN f.Values[i] ELSE RDiv(f.Values[i], sum)]])

\* status "err" when the values sum to zero (the factor is left as it was);
\* else the factor rescaled in place
Normalize(f) ==
    LET sum == RSum(f.Values)
    IN  IF sum = RZero
        THEN RetErr
        ELSE RetOk([f EXCEPT !.Values = [i \in DOMAIN f.Values |-> RDiv(f.Values[i], sum)]])

\* math.Inf(-1): below every value
NegInf == <<-1, 0>>

\* "maxVal := math.Inf(-1); for _, v := range f.Values { if v > maxVal { maxVal = v } }"
RMaxOf(values) ==
    LET F[i \in 0..Len(values)] ==
            IF i = 0 THEN NegInf
            ELSE LET prev == F[i - 1]
                 IN  IF RGreater(values[i], prev) THEN values[i] ELSE prev
    IN  F[Len(values)]

maxMarginalizeHelper(f, varList, newVars, newCard, result) ==
    LET leaves == Leaves(0, varList, f.Cardinality, EmptyMap)
        F[k \in 0..Len(leaves)] ==
            IF k = 0 THEN Running(result)
            ELSE LET prev   == F[k - 1]
                     oldIdx == projectAssignmentToIndex(f, leaves[k])
                     newIdx == assignmentToIndex(newVars, leaves[k], newCard)
                 IN  IF prev.panic THEN Panicked
                     ELSE IF InRange(prev.values, newIdx) /\ InRange(f.Values, oldIdx)
                     THEN IF RGreater(f.Values[oldIdx + 1], prev.values[newIdx + 1])
                          THEN Running([prev.values EXCEPT ![newIdx + 1] = f.Values[oldIdx + 1]])
                          ELSE prev
                     ELSE Panicked
    IN  F[Len(leaves)]

MaxMarginalize(f, variables) ==
    LET newVars == KeepVars(f, variables)
        newCard == RestrictCard(f, newVars)
        size    == SizeOf(newVars, newCard)
        h       == maxMarginalizeHelper(f, f.Variables, newVars, newCard,
                                        [i \in 1..size |-> NegInf])
    IN  IF Len(newVars) = 0
        THEN NewDiscreteFactor(<<>>, EmptyMap, <<RMaxOf(f.Values)>>)
        ELSE IF h.panic THEN RetPanic
        ELSE NewDiscreteFactor(newVars, newCard, h.values)

-----------------------------------------------------------------------------
(* factors.LinearGaussianCPD.  A configuration of discrete parents, the key *)
(* of DiscreteStates, is the list of their states in the order of Parents. *)

Discrete == "discrete"

Continuous == "continuous"

NoGaussianCPD ==
    [Variable |-> 0, Parents |-> <<>>, ParentTypes |-> EmptyMap, Intercept |-> RZero,
     Coefficients |-> EmptyMap, Variance |-> RZero, DiscreteStates |-> EmptyMap,
     Cardinality |-> EmptyMap]

NewLinearGaussianCPD(variable, parents, intercept, coefficients, variance) ==
    IF RLeq(variance, RZero) THEN [err |-> TRUE, cpd |-> NoGaussianCPD]
    ELSE [err |-> FALSE,
          cpd |-> [NoGaussianCPD EXCEPT
                      !.Variable = variable,
                      !.Parents = parents,
                      !.ParentTypes = [q \in Range(parents) |-> Continuous],
                      !.Intercept = intercept,
                      !.Coefficients = coefficients,
                      !.Variance = variance]]

\* "expectedStates *= cardinality[p]" over the parents
expectedStates(parents, cardinality) ==
    LET F[i \in 0..Len(parents)] ==
            IF i = 0 THEN 1 ELSE F[i - 1] * MapGet(cardinality, parents[i])
    IN  F[Len(parents)]

NewDiscreteParentGaussianCPD(variable, parents, cardinality, states) ==
    IF Cardinality(DOMAIN states) # expectedStates(parents, cardinality)
    THEN [err |-> TRUE, cpd |-> NoGaussianCPD]
    ELSE [err |-> FALSE,
          cpd |-> [NoGaussianCPD EXCEPT
                      !.Variable = variable,
                      !.Parents = parents,
                      !.ParentTypes = [q \in Range(parents) |-> Discrete],
                      !.DiscreteStates = states,
                      !.Cardinality = cardinality]]

-----------------------------------------------------------------------------
(* models.BayesianNetwork *)

EmptyNetwork ==
    [DAG |-> NewDAG, CPDs |-> EmptyMap, GaussianCPDs |-> EmptyMap,
     VariableType |-> EmptyMap, Cardinality |-> EmptyMap]

\* NewDAGFromEdges: the edges added in order; err when an AddEdge fails
RECURSIVE NewDAGFromEdges(_, _)
NewDAGFromEdges(edges, d) ==
    IF edges = <<>> THEN [err |-> FALSE, dag |-> d]
    ELSE LET r == AddEdge(d, edges[1][1], edges[1][2])
         IN  IF r.err THEN [err |-> TRUE, dag |-> NewDAG]
             ELSE NewDAGFromEdges(Tail(edges), r.dag)

NewBayesianNetwork(edges) ==
    LET r == NewDAGFromEdges(edges, NewDAG)
    IN  [err |-> r.err, bn |-> [EmptyNetwork EXCEPT !.DAG = r.dag]]

\* DAG.Nodes / DAG.Parents: sorted
Nodes(d) == SortStrings(d.nodes)

Parents(d, node) == SortStrings(ParentsOf(d, node))

\* the evidence of the CPD, sorted, differs from the sorted parents of its node
EvidenceMismatch(bn, c) == SortSlice(c.Evidence) # Parents(bn.DAG, c.Variable)

\* the cardinalities AddCPD records: the variable's, then every EvidenceCard entry
RecordCardinality(cardinality, c) ==
    [k \in DOMAIN cardinality \cup {c.Variable} \cup DOMAIN c.EvidenceCard |->
        IF k \in DOMAIN c.EvidenceCard THEN c.EvidenceCard[k]
        ELSE IF k = c.Variable THEN c.VariableCard
        ELSE cardinality[k]]

\* the types AddCPD and Fit record: Discrete for the variable and for every
\* EvidenceCard entry, whatever was recorded for them before
RecordType(variableType, c) ==
    [k \in DOMAIN variableType \cup {c.Variable} \cup DOMAIN c.EvidenceCard |->
        IF k = c.Variable \/ k \in DOMAIN c.EvidenceCard THEN Discrete
        ELSE variableType[k]]

AddCPD(bn, c) ==
    IF c.Variable \notin bn.DAG.nodes \/ EvidenceMismatch(bn, c)
    THEN [err |-> TRUE, bn |-> bn]
    ELSE [err |-> FALSE,
          bn  |-> [bn EXCEPT !.CPDs = MapSet(bn.CPDs, c.Variable, c),
                             !.VariableType = RecordType(bn.VariableType, c),
                             !.Cardinality = RecordCardinality(bn.Cardinality, c)]]

\* the parents of the Gaussian CPD, sorted, differ from the sorted parents of
\* its node
ParentsMismatch(bn, g) == SortSlice(g.Parents) # Parents(bn.DAG, g.Variable)

\* "Set parent types based on CPD": a parent without a type gets the type the
\* CPD declares for it
gaussianParentTypes(variableType, g) ==
    [k \in DOMAIN variableType \cup DOMAIN g.ParentTypes |->
        IF k \in DOMAIN variableType THEN variableType[k]
        ELSE IF g.ParentTypes[k] = Discrete THEN Discrete
        ELSE Continuous]

\* a discrete parent with an entry in cpd.Cardinality gets that cardinality
gaussianParentCard(cardinality, g) ==
    LET given == {p \in DOMAIN g.ParentTypes :
                     g.ParentTypes[p] = Discrete /\ p \in DOMAIN g.Cardinality}
    IN  [k \in DOMAIN cardinality \cup given |->
            IF k \in given THEN g.Cardinality[k] ELSE cardinality[k]]

AddGaussianCPD(bn, g) ==
    IF g.Variable \notin bn.DAG.nodes \/ ParentsMismatch(bn, g)
    THEN [err |-> TRUE, bn |-> bn]
    ELSE [err |-> FALSE,
          bn  |-> [bn EXCEPT
                      !.GaussianCPDs = MapSet(bn.GaussianCPDs, g.Variable, g),
                      !.VariableType =
                          gaussianParentTypes(MapSet(bn.VariableType, g.Variable, Continuous), g),
                      !.Cardinality = gaussianParentCard(bn.Cardinality, g)]]

IsDiscrete(bn, variable) ==
    variable \in DOMAIN bn.VariableType /\ bn.VariableType[variable] = Discrete

IsContinuous(bn, variable) ==
    variable \in DOMAIN bn.VariableType /\ bn.VariableType[variable] = Continuous

\* CheckModel returns an error (TRUE) or nil
CheckModel(bn) ==
    \/ \E node \in bn.DAG.nodes :
           (node \in DOMAIN bn.CPDs) = (node \in DOMAIN bn.GaussianCPDs)
    \/ \E variable \in DOMAIN bn.CPDs : EvidenceMismatch(bn, bn.CPDs[variable])
    \/ \E variable \in DOMAIN bn.GaussianCPDs :
           ParentsMismatch(bn, bn.GaussianCPDs[variable])

\* GetCPDs: the CPDs in the order the range over bn.CPDs walks them
GetCPDs(bn, order) == [i \in DOMAIN order |-> bn.CPDs[order[i]]]

-----------------------------------------------------------------------------
(* inference.VariableElimination.  A value that the code computes once and  *)
(* reads several times is handed on as an operator argument.                *)

\* a list of factors in the making, or a panic
ListOk(factors) == [panic |-> FALSE, factors |-> factors]

ListPanic == [panic |-> TRUE, factors |-> <<>>]

ContainsVar(factor, variable) == \E i \in DOMAIN factor.Variables : factor.Variables[i] = variable

\* the factors that contain the variable, and the others, in list order
relevantOf(variable, factorList) == SelectSeq(factorList, LAMBDA f : ContainsVar(f, variable))

irrelevantOf(variable, factorList) == SelectSeq(factorList, LAMBDA f : ~ContainsVar(f, variable))

\* "if err != nil { continue }; product = newProduct"
skipOnError(product, newProduct) == IF newProduct.status = "err" THEN product ELSE newProduct

\* one turn of the product loop
multiplyStep(product, factor) ==
    IF product.status = "panic" THEN product
    ELSE skipOnError(product, Multiply(product.factor, factor))

\* "product := relevant[0]; for i := 1; ...": a Multiply error is skipped
multiplyRelevant(relevant) ==
    LET F[i \in 1..Len(relevant)] ==
            IF i = 1 THEN RetOk(relevant[1]) ELSE multiplyStep(F[i - 1], relevant[i])
    IN  F[Len(relevant)]

\* a slip: the factors without the variable are dropped
returnToPool_DropsIrrelevant(irrelevant, marginalized) ==
    IF marginalized.status = "panic" THEN ListPanic
    ELSE IF marginalized.status = "err" THEN ListOk(<<>>)
    ELSE ListOk(<<marginalized.factor>>)

\* "if err != nil { return irrelevant }; return append(irrelevant, marginalized)"
returnToPool(irrelevant, marginalized) ==
    IF marginalized.status = "panic" THEN ListPanic
    ELSE IF marginalized.status = "err" THEN ListOk(irrelevant)
    ELSE ListOk(Append(irrelevant, marginalized.factor))

marginalizeProduct(product, variable) ==
    IF product.status = "panic" THEN RetPanic ELSE Marginalize(product.factor, {variable})

maxMarginalizeProduct(product, variable) ==
    IF product.status = "panic" THEN RetPanic ELSE MaxMarginalize(product.factor, {variable})

eliminateVariable(variable, factorList) ==
    IF relevantOf(variable, factorList) = <<>> THEN ListOk(factorList)
    ELSE returnToPool(irrelevantOf(variable, factorList),
                      marginalizeProduct(multiplyRelevant(relevantOf(variable, factorList)),
                                         variable))

maxEliminateVariable(variable, factorList) ==
    IF relevantOf(variable, factorList) = <<>> THEN ListOk(factorList)
    ELSE returnToPool(irrelevantOf(variable, factorList),
                      maxMarginalizeProduct(multiplyRelevant(relevantOf(variable, factorList)),
                                            variable))

\* a list of factors in the making, with the status of the call that failed
Collected(factors) == [status |-> "ok", factors |-> factors]

Failed(status) == [status |-> status, factors |-> <<>>]

\* one turn of a loop that appends a factor or returns the error
appendOrFail(done, r) ==
    IF done.status # "ok" THEN done
    ELSE IF r.status # "ok" THEN Failed(r.status)
    ELSE Collected(Append(done.factors, r.factor))

\* "for _, cpd := range ve.Model.GetCPDs() { factor, err := cpd.ToFactor() ... }"
factorListOf(cpds) ==
    LET F[i \in 0..Len(cpds)] ==
            IF i = 0 THEN Collected(<<>>) ELSE appendOrFail(F[i - 1], ToFactor(cpds[i]))
    IN  F[Len(cpds)]

\* "for _, factor := range factorList { reduced, err := factor.Reduce(evidence) ... }"
reduceAll(factorList, evidence) ==
    LET F[i \in 0..Len(factorList)] ==
            IF i = 0 THEN Collected(<<>>)
            ELSE appendOrFail(F[i - 1], Reduce(factorList[i], evidence))
    IN  F[Len(factorList)]

reduceCollected(factorList, evidence) ==
    IF factorList.status # "ok" THEN factorList ELSE reduceAll(factorList.factors, evidence)

\* a slip: the factor of a CPD without parents takes the row of the table
\* itself, not a copy of it, and Reduce hands back the factor it was given
\* when the factor holds no evidence variable
reducedFactorsOf_SharesRow(cpds, evidence) ==
    LET factorOf(c) ==
            IF c.Evidence = <<>> /\ Len(c.Values) = 1 /\ ToFactor(c).status = "ok"
            THEN RetOk([Variables   |-> <<c.Variable>>,
                        Cardinality |-> ToFactor(c).factor.Cardinality,
                        Values      |-> c.Values[1],
                        Owner       |-> c.Variable])
            ELSE ToFactor(c)
        reduceOf(f) ==
            IF Range(f.Variables) \cap DOMAIN evidence = {}
            THEN RetOk(f)
            ELSE Reduce(f, evidence)
        made[i \in 0..Len(cpds)] ==
            IF i = 0 THEN Collected(<<>>) ELSE appendOrFail(made[i - 1], factorOf(cpds[i]))
        factorList == made[Len(cpds)].factors
        reduced[i \in 0..Len(factorList)] ==
            IF i = 0 THEN Collected(<<>>)
            ELSE appendOrFail(reduced[i - 1], reduceOf(factorList[i]))
    IN  IF made[Len(cpds)].status # "ok" THEN made[Len(cpds)]
        ELSE reduced[Len(factorList)]

\* the first two loops of Query and MAP
reducedFactorsOf(cpds, evidence) == reduceCollected(factorListOf(cpds), evidence)

\* all nodes but the query and the evidence variables, sorted
toEliminateOf(bn, variables, evidence) ==
    SortStrings(Range(Nodes(bn.DAG)) \ (variables \cup DOMAIN evidence))

\* "for _, v := range toEliminate { currentFactors = eliminate(v, currentFactors) }"
RECURSIVE eliminateAll(_, _, _)
eliminateAll(toEliminate, current, useMax) ==
    IF toEliminate = <<>> \/ current.panic THEN current
    ELSE eliminateAll(Tail(toEliminate),
                      IF useMax THEN maxEliminateVariable(toEliminate[1], current.factors)
                                ELSE eliminateVariable(toEliminate[1], current.factors),
                      useMax)

\* one turn of the last loop: "if err != nil { return nil, err }"
multiplyOrFail(result, factor) ==
    IF result.status # "ok" THEN result ELSE Multiply(result.factor, factor)

\* "result := currentFactors[0]; for i := 1; ...": a Multiply error is returned
multiplyRemaining(currentFactors) ==
    LET F[i \in 1..Len(currentFactors)] ==
            IF i = 1 THEN RetOk(currentFactors[1])
            ELSE multiplyOrFail(F[i - 1], currentFactors[i])
    IN  F[Len(currentFactors)]

\* Query from "Normalize" on
queryNormalize(result) ==
    IF result.status # "ok" THEN [status |-> result.status, factor |-> NoFactor]
    ELSE Normalize(result.factor)

\* Query from "Multiply remaining factors" on
queryMultiply(current) ==
    IF current.panic THEN RetPanic
    ELSE IF Len(current.factors) = 0 THEN RetErr
    ELSE queryNormalize(multiplyRemaining(current.factors))

\* Query from "Find variables to eliminate" on
queryEliminate(bn, variables, evidence, reduced) ==
    IF reduced.status # "ok" THEN [status |-> reduced.status, factor |-> NoFactor]
    ELSE queryMultiply(eliminateAll(toEliminateOf(bn, variables, evidence),
                                    ListOk(reduced.factors), FALSE))

\* Query(variables, evidence) on the model bn, whose CPD map is walked in order
Query(bn, order, variables, evidence) ==
    queryEliminate(bn, variables, evidence,
                   reducedFactorsOf(GetCPDs(bn, order), evidence))

\* "maxIdx := 0; maxVal := result.Values[0]; for i := 1; ...": the first maximum
argMax(values) ==
    LET F[i \in 1..Len(values)] ==
            IF i = 1 THEN [maxIdx |-> 0, maxVal |-> values[1]]
            ELSE LET prev == F[i - 1]
                 IN  IF RGreater(values[i], prev.maxVal)
                     THEN [maxIdx |-> i - 1, maxVal |-> values[i]]
                     ELSE prev
    IN  F[Len(values)].maxIdx

\* decodeIndex taking the variables first to last: the first varies fastest
decodeIndex_FirstFastest(bn, variables, maxIdx) ==
    LET n == Len(variables)
        F[k \in 0..n] ==
            IF k = 0 THEN [panic |-> FALSE, idx |-> maxIdx, assignment |-> EmptyMap]
            ELSE LET prev == F[k - 1]
                     v    == variables[k]
                     card == MapGet(bn.Cardinality, v)
                 IN  IF prev.panic \/ card = 0
                     THEN [panic |-> TRUE, idx |-> 0, assignment |-> EmptyMap]
                     ELSE [panic |-> FALSE, idx |-> prev.idx \div card,
                           assignment |-> MapSet(prev.assignment, v, prev.idx % card)]
    IN  F[n]

\* the index decoded with the model's cardinalities, last variable first;
\* panic (TRUE) on a zero cardinality
decodeIndex(bn, variables, maxIdx) ==
    LET n == Len(variables)
        F[k \in 0..n] ==
            IF k = 0 THEN [panic |-> FALSE, idx |-> maxIdx, assignment |-> EmptyMap]
            ELSE LET prev == F[k - 1]
                     v    == variables[n - k + 1]
                     card == MapGet(bn.Cardinality, v)
                 IN  IF prev.panic \/ card = 0
                     THEN [panic |-> TRUE, idx |-> 0, assignment |-> EmptyMap]
                     ELSE [panic |-> FALSE, idx |-> prev.idx \div card,
                           assignment |-> MapSet(prev.assignment, v, prev.idx % card)]
    IN  F[n]

MapFailed(status) == [status |-> status, assignment |-> EmptyMap]

mapAssignment(decoded) ==
    IF decoded.panic THEN MapFailed("panic")
    ELSE [status |-> "ok", assignment |-> decoded.assignment]

\* MAP from "Find maximum assignment" on
mapDecode(bn, result) ==
    IF result.status # "ok" THEN MapFailed(result.status)
    ELSE IF Len(result.factor.Values) = 0 THEN MapFailed("panic")
    ELSE mapAssignment(decodeIndex(bn, result.factor.Variables,
                                   argMax(result.factor.Values)))

\* MAP from "Multiply remaining factors" on
mapMultiply(bn, current) ==
    IF current.panic THEN MapFailed("panic")
    ELSE IF Len(current.factors) = 0 THEN MapFailed("err")
    ELSE mapDecode(bn, multiplyRemaining(current.factors))

\* MAP from "Find variables to eliminate" on
mapEliminate(bn, variables, evidence, reduced) ==
    IF reduced.status # "ok" THEN MapFailed(reduced.status)
    ELSE mapMultiply(bn, eliminateAll(toEliminateOf(bn, variables, evidence),
                                      ListOk(reduced.factors), TRUE))

MAP(bn, order, variables, evidence) ==
    mapEliminate(bn, variables, evidence,
                 reducedFactorsOf(GetCPDs(bn, order), evidence))

-----------------------------------------------------------------------------
(* factors.GaussianFactor: Variables, Mean[v], Covariance[v1][v2].  The     *)
(* entries are ratios of small integers, so a difference above 1e-9 is a    *)
(* difference, and a pivot below 1e-10 in absolute value is a pivot of 0.   *)

NoGaussianFactor == [Variables |-> <<>>, Mean |-> EmptyMap, Covariance |-> EmptyMap]

GaussOk(f) == [status |-> "ok", factor |-> f]

GaussErr == [status |-> "err", factor |-> NoGaussianFactor]

RNeg(a) == <<-a[1], a[2]>>

RSub(a, b) == RAdd(a, RNeg(b))

RAbs(a) == <<Abs(a[1]), a[2]>>

\* "Find pivot": the first row from i on whose entry in column i is largest
\* in absolute value
pivotRow(augmented, i) ==
    LET p == Len(augmented)
        F[k \in i..p] ==
            IF k = i THEN i
            ELSE LET maxRow == F[k - 1]
                 IN  IF RGreater(RAbs(augmented[k][i]), RAbs(augmented[maxRow][i]))
                     THEN k ELSE maxRow
    IN  F[p]

swapRows(augmented, i, maxRow) ==
    [augmented EXCEPT ![i] = augmented[maxRow], ![maxRow] = augmented[i]]

\* a read of a map of float64: 0 for a key that is absent
MeanGet(mean, v) == IF v \in DOMAIN mean THEN mean[v] ELSE RZero

CovGet(covariance, v1, v2) ==
    IF v1 \in DOMAIN covariance THEN MeanGet(covariance[v1], v2) ELSE RZero

NewGaussianFactor(variables, mean, covariance) ==
    IF \/ Len(variables) = 0
       \/ \E v \in Range(variables) : v \notin DOMAIN mean
       \/ \E v1 \in Range(variables) : v1 \notin DOMAIN covariance
       \/ \E v1 \in Range(variables), v2 \in Range(variables) :
              \/ v2 \notin DOMAIN covariance[v1]
              \/ CovGet(covariance, v1, v2) # CovGet(covariance, v2, v1)
    THEN GaussErr
    ELSE GaussOk([Variables |-> variables, Mean |-> mean, Covariance |-> covariance])

\* LinearGaussianCPD.ToFactor: only a CPD without parents is converted
GaussianToFactor(g) ==
    IF \E q \in DOMAIN g.ParentTypes : g.ParentTypes[q] = Discrete THEN GaussErr
    ELSE IF Len(g.Parents) = 0
    THEN NewGaussianFactor(<<g.Variable>>,
                           [v \in {g.Variable} |-> g.Intercept],
                           [v \in {g.Variable} |-> [w \in {g.Variable} |-> g.Variance]])
    ELSE GaussErr

\* GaussianFactor.Marginalize: the variables are dropped from mean and covariance
GaussianMarginalize(gf, variables) ==
    LET newVars == SelectSeq(gf.Variables, LAMBDA v : v \notin variables)
    IN  IF Len(newVars) = 0 THEN GaussErr
        ELSE NewGaussianFactor(newVars,
                 [v1 \in Range(newVars) |-> MeanGet(gf.Mean, v1)],
                 [v1 \in Range(newVars) |->
                     [v2 \in Range(newVars) |-> CovGet(gf.Covariance, v1, v2)]])

\* one turn of the elimination of invertSubMatrix: pivot, swap, scale, eliminate
invertStep(prev, i) ==
    LET maxRow == pivotRow(prev.matrix, i)
        matrix == swapRows(prev.matrix, i, maxRow)
        inv    == swapRows(prev.inv, i, maxRow)
        pivot  == matrix[i][i]
        mrow   == [j \in DOMAIN matrix[i] |-> RDiv(matrix[i][j], pivot)]
        irow   == [j \in DOMAIN inv[i] |-> RDiv(inv[i][j], pivot)]
    IN  IF pivot[1] = 0 THEN [singular |-> TRUE, matrix |-> matrix, inv |-> inv]
        ELSE [singular |-> FALSE,
              matrix |-> [k \in DOMAIN matrix |->
                             IF k = i THEN mrow
                             ELSE [j \in DOMAIN matrix[k] |->
                                      RSub(matrix[k][j], RMul(matrix[k][i], mrow[j]))]],
              inv    |-> [k \in DOMAIN inv |->
                             IF k = i THEN irow
                             ELSE [j \in DOMAIN inv[k] |->
                                      RSub(inv[k][j], RMul(matrix[k][i], irow[j]))]]]

\* invertSubMatrix: the inverse of the covariance of the names, or singular
invertSubMatrix(gf, names) ==
    LET n == Len(names)
        F[i \in 0..n] ==
            IF i = 0
            THEN [singular |-> FALSE,
                  matrix |-> [a \in 1..n |->
                                 [b \in 1..n |-> CovGet(gf.Covariance, names[a], names[b])]],
                  inv    |-> [a \in 1..n |-> [b \in 1..n |-> IF a = b THEN ROne ELSE RZero]]]
            ELSE IF F[i - 1].singular THEN F[i - 1]
            ELSE invertStep(F[i - 1], i)
    IN  F[n]

\* the sum over the pairs (i, j) of observed variables of term(i, j)
sumOverPairs(n, term(_, _)) ==
    RSum([k \in 1..(n * n) |-> term(((k - 1) \div n) + 1, ((k - 1) % n) + 1)])

\* the conditional distribution of the unobserved variables given the others
conditionOn(gf, observed, unobserved, evidence, sigma22Inv) ==
    NewGaussianFactor(unobserved,
        [v \in Range(unobserved) |->
            RAdd(MeanGet(gf.Mean, v),
                 sumOverPairs(Len(observed),
                     LAMBDA i, j :
                         RMul(RMul(CovGet(gf.Covariance, v, observed[i]), sigma22Inv[i][j]),
                              RSub(evidence[observed[j]], MeanGet(gf.Mean, observed[j])))))],
        [v1 \in Range(unobserved) |->
            [v2 \in Range(unobserved) |->
                RSub(CovGet(gf.Covariance, v1, v2),
                     sumOverPairs(Len(observed),
                         LAMBDA i, j :
                             RMul(RMul(CovGet(gf.Covariance, v1, observed[i]),
                                       sigma22Inv[i][j]),
                                  CovGet(gf.Covariance, observed[j], v2))))]])

\* GaussianFactor.Reduce: a copy when nothing is observed, an error when
\* everything is, else the conditional distribution
GaussianReduce(gf, evidence) ==
    LET observed   == SelectSeq(gf.Variables, LAMBDA v : v \in DOMAIN evidence)
        unobserved == SelectSeq(gf.Variables, LAMBDA v : v \notin DOMAIN evidence)
        inverted   == invertSubMatrix(gf, observed)
    IN  IF Len(observed) = 0 THEN GaussOk(gf)
        ELSE IF Len(unobserved) = 0 THEN GaussErr
        ELSE IF inverted.singular THEN GaussErr
        ELSE conditionOn(gf, observed, unobserved, evidence, inverted.inv)

\* GaussianFactor.Multiply: the joint of two factors over disjoint variables,
\* zero covariance between them; an error when they share a variable
GaussianMultiply(gf, other) ==
    LET newVars == SortStrings(Range(gf.Variables) \cup Range(other.Variables))
    IN  IF Range(gf.Variables) \cap Range(other.Variables) # {} THEN GaussErr
        ELSE NewGaussianFactor(newVars,
                 [v \in Range(newVars) |->
                     IF v \in DOMAIN gf.Mean THEN gf.Mean[v] ELSE MeanGet(other.Mean, v)],
                 [v \in Range(newVars) |->
                     [v2 \in Range(newVars) |->
                         IF v \in DOMAIN gf.Mean
                         THEN IF v2 \in DOMAIN gf.Mean
                              THEN CovGet(gf.Covariance, v, v2) ELSE RZero
                         ELSE IF v2 \in DOMAIN other.Mean
                              THEN CovGet(other.Covariance, v, v2) ELSE RZero]])

-----------------------------------------------------------------------------
(* inference.MixedVariableElimination.  The evidence is [Discrete,          *)
(* Continuous], two maps; the query variables are sets, as for Query.       *)

NoMixedResult ==
    [DiscreteVars |-> {}, ContinuousVars |-> {}, Cardinality |-> EmptyMap,
     Values |-> <<>>, Mean |-> EmptyMap, Covariance |-> EmptyMap]

MixedFailed(status) == [status |-> status, result |-> NoMixedResult, factor |-> NoFactor]

\* the result of a discrete query; factor is the factor whose Cardinality
\* and Values it shares
DiscreteResult(discreteVars, factor) ==
    [status |-> "ok",
     result |-> [NoMixedResult EXCEPT !.DiscreteVars = discreteVars,
                                      !.Cardinality = factor.Cardinality,
                                      !.Values = factor.Values],
     factor |-> factor]

\* the result of a continuous query
GaussianResult(continuousVars, factor) ==
    [status |-> "ok",
     result |-> [NoMixedResult EXCEPT !.ContinuousVars = continuousVars,
                                      !.Mean = factor.Mean,
                                      !.Covariance = factor.Covariance],
     factor |-> NoFactor]

\* "if err != nil { return nil, err }", then the result built from the factor
discreteAnswer(discreteVars, result) ==
    IF result.status # "ok" THEN MixedFailed(result.status)
    ELSE DiscreteResult(discreteVars, result.factor)

\* a slip: the evidence is not handed on to the discrete engine
queryDiscrete_WithoutEvidence(bn, order, discreteVars, evidence) ==
    IF CheckModel(bn) THEN MixedFailed("err")
    ELSE discreteAnswer(discreteVars, Query(bn, order, discreteVars, EmptyMap))

\* NewVariableElimination fails on a model that CheckModel rejects
queryDiscrete(bn, order, discreteVars, evidence) ==
    IF CheckModel(bn) THEN MixedFailed("err")
    ELSE discreteAnswer(discreteVars, Query(bn, order, discreteVars, evidence.Discrete))

\* GetGaussianCPDs: the CPDs in the order the range over bn.GaussianCPDs walks them
GetGaussianCPDs(bn, gorder) == [i \in DOMAIN gorder |-> bn.GaussianCPDs[gorder[i]]]

allContinuousParents(g) == \A q \in DOMAIN g.ParentTypes : g.ParentTypes[q] = Continuous

\* "if err == nil { list = append(list, factor) }"
appendIfOk(list, r) == IF r.status = "ok" THEN Append(list, r.factor) ELSE list

\* "if err == nil { factor = made }"
replaceIfOk(factor, r) == IF r.status = "ok" THEN r.factor ELSE factor

\* the factors of the CPDs that ToFactor converts; the others are skipped
gaussianFactorsOf(cpds) ==
    LET F[i \in 0..Len(cpds)] ==
            IF i = 0 THEN <<>> ELSE appendIfOk(F[i - 1], GaussianToFactor(cpds[i]))
    IN  F[Len(cpds)]

\* "reduced, err := factorList[i].Reduce(...); if err == nil { factorList[i] = reduced }"
reduceOrKeep(factorList, evidence) ==
    [i \in DOMAIN factorList |->
        replaceIfOk(factorList[i], GaussianReduce(factorList[i], evidence))]

\* "product := relevant[0]; for i := 1; ...": a Multiply error is skipped
multiplyRelevantGaussians(relevant) ==
    LET F[i \in 1..Len(relevant)] ==
            IF i = 1 THEN relevant[1]
            ELSE replaceIfOk(F[i - 1], GaussianMultiply(F[i - 1], relevant[i]))
    IN  F[Len(relevant)]

eliminateContinuousVariable(variable, factorList) ==
    IF relevantOf(variable, factorList) = <<>> THEN factorList
    ELSE appendIfOk(irrelevantOf(variable, factorList),
                    GaussianMarginalize(
                        multiplyRelevantGaussians(relevantOf(variable, factorList)),
                        {variable}))

RECURSIVE eliminateContinuous(_, _)
eliminateContinuous(toEliminate, current) ==
    IF toEliminate = <<>> THEN current
    ELSE eliminateContinuous(Tail(toEliminate),
                             eliminateContinuousVariable(toEliminate[1], current))

\* one turn of the last loop: "if err != nil { return nil, err }"
multiplyGaussianOrFail(result, factor) ==
    IF result.status # "ok" THEN result ELSE GaussianMultiply(result.factor, factor)

\* "result := currentFactors[0]; for i := 1; ...": a Multiply error is returned
multiplyGaussians(currentFactors) ==
    LET F[i \in 1..Len(currentFactors)] ==
            IF i = 1 THEN GaussOk(currentFactors[1])
            ELSE multiplyGaussianOrFail(F[i - 1], currentFactors[i])
    IN  F[Len(currentFactors)]

\* "if err != nil { return nil, err }", then the result built from the factor
gaussianAnswer(continuousVars, result) ==
    IF result.status # "ok" THEN MixedFailed("err")
    ELSE GaussianResult(continuousVars, result.factor)

\* a continuous query from "Multiply remaining factors" on
continuousMultiply(continuousVars, current) ==
    IF Len(current) = 0 THEN MixedFailed("err")
    ELSE gaussianAnswer(continuousVars, multiplyGaussians(current))

\* a continuous query from the reduction by the evidence on
continuousFrom(factorList, toEliminate, continuousVars, evidence) ==
    IF Len(factorList) = 0 THEN MixedFailed("err")
    ELSE continuousMultiply(continuousVars,
             eliminateContinuous(toEliminate, reduceOrKeep(factorList, evidence.Continuous)))

queryContinuous(bn, gorder, continuousVars, evidence) ==
    continuousFrom(gaussianFactorsOf(GetGaussianCPDs(bn, gorder)),
                   SortStrings(bn.DAG.nodes \ (continuousVars \cup DOMAIN evidence.Continuous)),
                   continuousVars, evidence)

\* the discrete nodes but the query and the evidence variables, sorted
discreteToEliminate(bn, discreteVars, evidence) ==
    SortStrings({node \in bn.DAG.nodes : IsDiscrete(bn, node)}
                    \ (discreteVars \cup DOMAIN evidence.Discrete))

\* the discrete engine's steps over the tabular CPDs, the discrete nodes eliminated
discreteEliminate(bn, discreteVars, evidence, reduced) ==
    IF reduced.status # "ok" THEN MixedFailed(reduced.status)
    ELSE discreteAnswer(discreteVars,
             queryMultiply(eliminateAll(discreteToEliminate(bn, discreteVars, evidence),
                                        ListOk(reduced.factors), FALSE)))

queryDiscreteInMixed(bn, order, discreteVars, evidence) ==
    discreteEliminate(bn, discreteVars, evidence,
                      reducedFactorsOf(GetCPDs(bn, order), evidence.Discrete))

queryContinuousInMixed(bn, gorder, continuousVars, evidence) ==
    continuousFrom(gaussianFactorsOf(SelectSeq(GetGaussianCPDs(bn, gorder),
                                               allContinuousParents)),
                   SortStrings({node \in bn.DAG.nodes : IsContinuous(bn, node)}
                                   \ (continuousVars \cup DOMAIN evidence.Continuous)),
                   continuousVars, evidence)

queryMixedCLG(bn, order, gorder, discreteVars, continuousVars, evidence) ==
    IF continuousVars = {} THEN queryDiscreteInMixed(bn, order, discreteVars, evidence)
    ELSE IF discreteVars = {}
    THEN queryContinuousInMixed(bn, gorder, continuousVars, evidence)
    ELSE MixedFailed("err")

\* "allDiscrete": no node is continuous
allDiscrete(bn) == \A node \in bn.DAG.nodes : ~IsContinuous(bn, node)

\* "allContinuous": no node is discrete
allContinuous(bn) == \A node \in bn.DAG.nodes : ~IsDiscrete(bn, node)

\* MixedVariableElimination.Query; order and gorder are the orders in which
\* the ranges over the two CPD maps walk them
MixedQuery(bn, order, gorder, discreteVars, continuousVars, evidence) ==
    IF allDiscrete(bn) /\ continuousVars # {} THEN MixedFailed("err")
    ELSE IF allContinuous(bn) /\ discreteVars # {} THEN MixedFailed("err")
    ELSE IF allDiscrete(bn) THEN queryDiscrete(bn, order, discreteVars, evidence)
    ELSE IF allContinuous(bn) THEN queryContinuous(bn, gorder, continuousVars, evidence)
    ELSE queryMixedCLG(bn, order, gorder, discreteVars, continuousVars, evidence)

-----------------------------------------------------------------------------
(* models.BayesianNetwork.Predict.  The network's own eliminateVariable is  *)
(* line for line the one of the inference engine, which is used here.       *)

PredOk(state) == [status |-> "ok", state |-> state]

PredFailed(status) == [status |-> status, state |-> 0]

\* "maxIdx := 0; maxProb := probs[0]; for i := 1; ...": the first maximum of a row
predictArgMax(probs) ==
    IF Len(probs) = 0 THEN PredFailed("panic") ELSE PredOk(argMax(probs))

\* the fast path of predictSingle: the row of the CPD at the observed parents
predictFromRow(c, rowIdx) ==
    IF ~InRange(c.Values, rowIdx) THEN PredFailed("panic")
    ELSE predictArgMax(c.Values[rowIdx + 1])

\* the position (from 0) of variable in the result's variables, or -1
varPosOf(variables, variable) ==
    IF \E i \in DOMAIN variables : variables[i] = variable
    THEN Min({i \in DOMAIN variables : variables[i] = variable}) - 1
    ELSE -1

\* the product of the model's cardinalities of the variables after varPos
predictStride(bn, variables, varPos) ==
    LET n == Len(variables)
        F[k \in 0..n] ==
            IF k = 0 THEN 1
            ELSE F[k - 1] * MapGet(bn.Cardinality, variables[n - k + 1])
    IN  F[n - varPos - 1]

\* "varState := (maxIdx / stride) % bn.Cardinality[variable]"
predictExtract(bn, variable, maxIdx, stride) ==
    IF stride = 0 \/ MapGet(bn.Cardinality, variable) = 0 THEN PredFailed("panic")
    ELSE PredOk((maxIdx \div stride) % MapGet(bn.Cardinality, variable))

\* predictUsingInference from "Convert index to variable state" on
predictDecode(bn, variable, result, maxIdx) ==
    IF Len(result.Variables) = 1 THEN PredOk(maxIdx)
    ELSE IF varPosOf(result.Variables, variable) = -1 THEN PredFailed("err")
    ELSE predictExtract(bn, variable, maxIdx,
                        predictStride(bn, result.Variables,
                                      varPosOf(result.Variables, variable)))

\* predictUsingInference from "Find MAP assignment (argmax)" on
predictMaximum(bn, variable, result) ==
    IF result.status # "ok" THEN PredFailed(result.status)
    ELSE IF Len(result.factor.Values) = 0 THEN PredFailed("panic")
    ELSE predictDecode(bn, variable, result.factor, argMax(result.factor.Values))

\* predictUsingInference from "Multiply remaining factors" on
predictMultiply(bn, variable, current) ==
    IF current.panic THEN PredFailed("panic")
    ELSE IF Len(current.factors) = 0 THEN PredOk(0)
    ELSE predictMaximum(bn, variable, multiplyRemaining(current.factors))

\* the nodes, in the order of bn.Nodes(), but the variable and the observed ones
predictToEliminate(bn, variable, evidence) ==
    LET keep(node) == node # variable /\ node \notin DOMAIN evidence
    IN  SelectSeq(Nodes(bn.DAG), keep)

\* predictUsingInference from "Find variables to eliminate" on
predictEliminate(bn, variable, evidence, reduced) ==
    IF reduced.status # "ok" THEN PredFailed(reduced.status)
    ELSE predictMultiply(bn, variable,
                         eliminateAll(predictToEliminate(bn, variable, evidence),
                                      ListOk(reduced.factors), FALSE))

\* predictUsingInference, the range over bn.CPDs walking the map in order
predictUsingInference(bn, order, variable, evidence) ==
    predictEliminate(bn, variable, evidence,
                     reducedFactorsOf(GetCPDs(bn, order), evidence))

\* every parent the CPD declares is observed, and there is at least one
allParentsObserved(c, evidence) ==
    /\ Len(c.Evidence) > 0
    /\ \A j \in DOMAIN c.Evidence : c.Evidence[j] \in DOMAIN evidence

predictSingle(bn, order, variable, evidence) ==
    IF allParentsObserved(bn.CPDs[variable], evidence)
    THEN predictFromRow(bn.CPDs[variable], cpdRowIndex(bn.CPDs[variable], evidence))
    ELSE predictUsingInference(bn, order, variable, evidence)

\* what one cell of the predictions may become: the observed value, or what
\* predictSingle returns under some order of the range over bn.CPDs
cellOutcomes(bn, variable, obs) ==
    IF variable \in DOMAIN obs THEN {PredOk(obs[variable])}
    ELSE {predictSingle(bn, order, variable, obs) : order \in OrdersOf(DOMAIN bn.CPDs)}

\* the variables missing from at least one observation, sorted
toPredictOf(bn, observations) ==
    SortStrings({v \in Range(Nodes(bn.DAG)) :
                    \E i \in DOMAIN observations : v \notin DOMAIN observations[i]})

\* the cells in the order Predict fills them: observation by observation
cellsOf(toPredict, n) ==
    [k \in 1..(n * Len(toPredict)) |->
        [i |-> ((k - 1) \div Len(toPredict)) + 1,
         v |-> toPredict[((k - 1) % Len(toPredict)) + 1]]]

\* what the cell of variable v and observation obs may become, looked up in
\* single, which holds cellOutcomes for every variable and observation
outcomesAt(single, v, obs) ==
    (CHOOSE t \in single : t.variable = v /\ t.obs = obs).outcomes

\* the ways of filling the first k cells
RECURSIVE fillCells(_, _, _, _)
fillCells(single, observations, cells, k) ==
    IF k = 0 THEN {<<>>}
    ELSE {Append(done, o) :
            done \in fillCells(single, observations, cells, k - 1),
            o \in outcomesAt(single, cells[k].v, observations[cells[k].i])}

PredictFailed(status) == [status |-> status, predictions |-> EmptyMap]

\* what Predict returns when the cells are filled: the first error, or the predictions
predictionsOf(toPredict, n, filled) ==
    IF \E k \in DOMAIN filled : filled[k].status # "ok"
    THEN PredictFailed(filled[Min({k \in DOMAIN filled : filled[k].status # "ok"})].status)
    ELSE [status      |-> "ok",
          predictions |-> [v \in Range(toPredict) |->
                             [i \in 1..n |->
                                filled[(i - 1) * Len(toPredict) + IndexOf(toPredict, v)].state]]]

\* the results Predict(observations) may return, one for each way the
\* ranges over bn.CPDs may go; single holds cellOutcomes(bn, v, obs)
Predict(bn, observations, single) ==
    IF CheckModel(bn) THEN {PredictFailed("err")}
    ELSE {predictionsOf(toPredictOf(bn, observations), Len(observations), filled) :
            filled \in fillCells(single, observations,
                                 cellsOf(toPredictOf(bn, observations), Len(observations)),
                                 Len(observations) * Len(toPredictOf(bn, observations)))}

-----------------------------------------------------------------------------
(* models.BayesianNetwork.Simulate.  The call is followed draw by draw: sim *)
(* holds the topological order, the position in it, the sample being drawn  *)
(* and the samples completed so far.                                        *)

\* sampleCategorical for the uniform draw u: the first state whose cumulative
\* probability reaches u, or the last state
sampleCategorical(probs, u) ==
    LET n == Len(probs)
        F[i \in 0..n] ==
            IF i = 0 THEN [found |-> FALSE, state |-> 0, cumSum |-> RZero]
            ELSE LET prev == F[i - 1]
                 IN  IF prev.found THEN prev
                     ELSE [found  |-> RLeq(u, RAdd(prev.cumSum, probs[i])),
                           state  |-> i - 1,
                           cumSum |-> RAdd(prev.cumSum, probs[i])]
    IN  IF F[n].found THEN F[n].state ELSE n - 1

\* the body of the loop over the nodes: the row of the drawn parent states
\* (a parent not drawn yet reads as 0), then a draw from that row
drawFromRow(c, rowIdx, u) ==
    IF ~InRange(c.Values, rowIdx)
    THEN [status |-> "panic", rowIdx |-> rowIdx, state |-> 0]
    ELSE [status |-> "ok", rowIdx |-> rowIdx,
          state |-> sampleCategorical(c.Values[rowIdx + 1], u)]

drawNode(bn, node, sample, u) ==
    drawFromRow(bn.CPDs[node], cpdRowIndex(bn.CPDs[node], sample), u)

NoSim ==
    [pc |-> "idle", nSamples |-> 0, order |-> <<>>, pos |-> 0, sample |-> EmptyMap,
     samples |-> <<>>, status |-> "ok", node |-> 0, rowIdx |-> 0, before |-> EmptyMap]

\* Simulate has returned: an error, a panic, or the samples
simReturned(s, status, samples) ==
    [s EXCEPT !.pc = "returned", !.status = status, !.samples = samples]

\* Simulate up to the loop over the samples
simulateStart(bn, nSamples, sorted) ==
    IF CheckModel(bn) \/ sorted.err THEN simReturned(NoSim, "err", <<>>)
    ELSE IF nSamples = 0 \/ sorted.order = <<>>
    THEN simReturned([NoSim EXCEPT !.nSamples = nSamples], "ok",
                     [i \in 1..nSamples |-> EmptyMap])
    ELSE [NoSim EXCEPT !.pc = "drawing", !.nSamples = nSamples,
                       !.order = sorted.order, !.pos = 1]

\* the sample is complete: "samples[i] = sample", and the next one begins
simNextSample(s) ==
    IF Len(s.samples) + 1 = s.nSamples
    THEN simReturned(s, "ok", Append(s.samples, s.sample))
    ELSE [s EXCEPT !.samples = Append(s.samples, s.sample), !.pos = 1]

\* "sample[node] = sampleCategorical(probs, r)" and the step to the next node
simAssign(s, node, before, drawn) ==
    IF drawn.status # "ok"
    THEN [simReturned(s, drawn.status, <<>>) EXCEPT
              !.node = node, !.rowIdx = drawn.rowIdx, !.before = before]
    ELSE IF s.pos = Len(s.order)
    THEN simNextSample([s EXCEPT !.sample = MapSet(before, node, drawn.state),
                                 !.node = node, !.rowIdx = drawn.rowIdx, !.before = before])
    ELSE [s EXCEPT !.sample = MapSet(before, node, drawn.state), !.pos = s.pos + 1,
                   !.node = node, !.rowIdx = drawn.rowIdx, !.before = before]

\* one turn of the loop over the nodes; a new sample starts from the empty map
simulateDraw(bn, s, u) ==
    simAssign(s, s.order[s.pos], IF s.pos = 1 THEN EmptyMap ELSE s.sample,
              drawNode(bn, s.order[s.pos], IF s.pos = 1 THEN EmptyMap ELSE s.sample, u))

-----------------------------------------------------------------------------
(* models.BayesianNetwork.Fit and learnCPD *)

\* "if val+1 > varCard { varCard = val + 1 }" over the samples that hold v
observedCard(data, v) ==
    LET F[i \in 0..Len(data)] ==
            IF i = 0 THEN 0
            ELSE LET prev == F[i - 1]
                 IN  IF v \in DOMAIN data[i] /\ data[i][v] + 1 > prev
                     THEN data[i][v] + 1
                     ELSE prev
    IN  F[Len(data)]

\* the evidenceCard map: an entry for every parent some sample holds
learnEvidenceCard(data, parents) ==
    [p \in {q \in Range(parents) : observedCard(data, q) > 0} |-> observedCard(data, p)]

\* the row index of a sample, last parent fastest; not valid when the sample
\* lacks a parent (the loop breaks at the first one missing)
learnRowIndex(parents, evidenceCard, sample) ==
    LET n == Len(parents)
        F[k \in 0..n] ==
            IF k = 0 THEN [valid |-> TRUE, rowIdx |-> 0, stride |-> 1]
            ELSE LET prev == F[k - 1]
                     p    == parents[n - k + 1]
                 IN  IF ~prev.valid \/ p \notin DOMAIN sample
                     THEN [valid |-> FALSE, rowIdx |-> prev.rowIdx, stride |-> prev.stride]
                     ELSE [valid  |-> TRUE,
                           rowIdx |-> prev.rowIdx + sample[p] * prev.stride,
                           stride |-> prev.stride * MapGet(evidenceCard, p)]
    IN  F[n]

\* countSample that does not skip a sample lacking a parent
countSample_KeepsInvalid(prev, variable, sample, at) ==
    IF prev.panic \/ variable \notin DOMAIN sample THEN prev
    ELSE IF ~InRange(prev.counts, at.rowIdx) THEN [panic |-> TRUE, counts |-> <<>>]
    ELSE IF ~InRange(prev.counts[at.rowIdx + 1], sample[variable])
    THEN [panic |-> TRUE, counts |-> <<>>]
    ELSE [panic  |-> FALSE,
          counts |-> [prev.counts EXCEPT ![at.rowIdx + 1][sample[variable] + 1] = @ + 1]]

\* "counts[rowIdx][val]++", or the sample skipped, or an index out of range
countSample(prev, variable, sample, at) ==
    IF prev.panic \/ ~at.valid \/ variable \notin DOMAIN sample THEN prev
    ELSE IF ~InRange(prev.counts, at.rowIdx) THEN [panic |-> TRUE, counts |-> <<>>]
    ELSE IF ~InRange(prev.counts[at.rowIdx + 1], sample[variable])
    THEN [panic |-> TRUE, counts |-> <<>>]
    ELSE [panic  |-> FALSE,
          counts |-> [prev.counts EXCEPT ![at.rowIdx + 1][sample[variable] + 1] = @ + 1]]

\* the counts table after the loop over the data
countData(variable, parents, evidenceCard, numRows, varCard, data) ==
    LET F[i \in 0..Len(data)] ==
            IF i = 0
            THEN [panic |-> FALSE, counts |-> [r \in 1..numRows |-> [j \in 1..varCard |-> 0]]]
            ELSE countSample(F[i - 1], variable, data[i],
                             learnRowIndex(parents, evidenceCard, data[i]))
    IN  F[Len(data)]

\* the sum of a row of counts, each raised by one
smoothedSum(row) ==
    LET F[j \in 0..Len(row)] == IF j = 0 THEN 0 ELSE F[j - 1] + row[j] + 1
    IN  F[Len(row)]

\* "counts[i][j] += 1.0 ... values[i][j] = counts[i][j] / sum"
smoothedRow(row) == [j \in DOMAIN row |-> Rat(row[j] + 1, smoothedSum(row))]

LearnFailed(status) == [status |-> status, cpd |-> NoCPD]

\* learnCPD from "Normalize to get probabilities" on
learnNormalize(variable, varCard, parents, evidenceCard, counted) ==
    IF counted.panic THEN LearnFailed("panic")
    ELSE IF NewTabularCPDFails(variable, varCard,
                               [r \in DOMAIN counted.counts |-> smoothedRow(counted.counts[r])],
                               parents, evidenceCard)
    THEN LearnFailed("err")
    ELSE [status |-> "ok",
          cpd    |-> [Variable     |-> variable,
                      VariableCard |-> varCard,
                      Evidence     |-> parents,
                      EvidenceCard |-> evidenceCard,
                      Values       |-> [r \in DOMAIN counted.counts |->
                                           smoothedRow(counted.counts[r])]]]

\* learnCPD from "Count occurrences" on
learnCount(variable, varCard, parents, evidenceCard, data) ==
    learnNormalize(variable, varCard, parents, evidenceCard,
                   countData(variable, parents, evidenceCard,
                             SizeOf(parents, evidenceCard), varCard, data))

learnCPD(bn, variable, data) ==
    learnCount(variable, observedCard(data, variable), Parents(bn.DAG, variable),
               learnEvidenceCard(data, Parents(bn.DAG, variable)), data)

\* one turn of the loop of Fit: the CPD learnt is stored, or the error returned
fitNode(done, learnt) ==
    IF learnt.status # "ok" THEN [status |-> learnt.status, bn |-> done.bn]
    ELSE [status |-> "ok",
          bn     |-> [done.bn EXCEPT
                         !.CPDs = MapSet(done.bn.CPDs, learnt.cpd.Variable, learnt.cpd),
                         !.VariableType = RecordType(done.bn.VariableType, learnt.cpd),
                         !.Cardinality = RecordCardinality(done.bn.Cardinality, learnt.cpd)]]

\* Fit: refused when a node is recorded as continuous; else the nodes in the
\* order of bn.Nodes(), and the network keeps the CPDs stored before an error
Fit(bn, data) ==
    LET nodes == Nodes(bn.DAG)
        F[i \in 0..Len(nodes)] ==
            IF i = 0 THEN [status |-> "ok", bn |-> bn]
            ELSE LET prev == F[i - 1]
                 IN  IF prev.status # "ok" THEN prev
                     ELSE fitNode(prev, learnCPD(prev.bn, nodes[i], data))
    IN  IF \E node \in bn.DAG.nodes : IsContinuous(bn, node)
        THEN [status |-> "err", bn |-> bn]
        ELSE F[Len(nodes)]

NoFit == [op |-> "none", data |-> <<>>, status |-> "ok", steps |-> <<>>]

-----------------------------------------------------------------------------
(* models.BayesianNetwork.FitMixed.  A Sample is [Discrete, Continuous],   *)
(* two maps from names to values.                                           *)

\* the floor of a learnt variance, 1e-6
MinVariance == Rat(1, 1000000)

\* "if variance < 1e-6 { variance = 1e-6 }"
floorVariance(variance) == IF RLeq(MinVariance, variance) THEN variance ELSE MinVariance

learnDiscreteCPDFromMixed(bn, variable, data) ==
    learnCPD(bn, variable, [i \in DOMAIN data |-> data[i].Discrete])

GaussianLearnFailed(status, n) == [status |-> status, cpd |-> NoGaussianCPD, n |-> n]

\* the result of a constructor as the result of learning from n rows
gaussianLearnt(made, n) ==
    IF made.err THEN GaussianLearnFailed("err", n)
    ELSE [status |-> "ok", cpd |-> made.cpd, n |-> n]

\* the inner product of columns i and j of Y, and of column i with X
columnProduct(Y, i, j) == RSum([k \in DOMAIN Y |-> RMul(Y[k][i], Y[k][j])])

columnTimes(Y, X, i) == RSum([k \in DOMAIN Y |-> RMul(Y[k][i], X[k])])

\* "Eliminate": row i times augmented[k][i] / augmented[i][i] is taken from
\* every row k below i, from column i on
eliminateBelow(augmented, i) ==
    [k \in DOMAIN augmented |->
        IF k <= i THEN augmented[k]
        ELSE LET factor == RDiv(augmented[k][i], augmented[i][i])
             IN  [j \in DOMAIN augmented[k] |->
                     IF j < i THEN augmented[k][j]
                     ELSE RSub(augmented[k][j], RMul(factor, augmented[i][j]))]]

\* "Forward elimination".  The entries are ratios of small integers, so a
\* pivot below 1e-10 in absolute value is a pivot of 0.
forwardElimination(augmented) ==
    LET p == Len(augmented)
        F[i \in 0..p] ==
            IF i = 0 THEN [singular |-> FALSE, augmented |-> augmented]
            ELSE LET prev == F[i - 1]
                 IN  IF prev.singular THEN prev
                     ELSE LET swapped == swapRows(prev.augmented, i,
                                                  pivotRow(prev.augmented, i))
                          IN  IF swapped[i][i][1] = 0
                              THEN [singular |-> TRUE, augmented |-> swapped]
                              ELSE [singular |-> FALSE,
                                    augmented |-> eliminateBelow(swapped, i)]
    IN  F[p]

\* "Back substitution": beta[i] from the last row up
backSubstitution(augmented) ==
    LET p == Len(augmented)
        B[i \in 1..p] ==
            RDiv(RSub(augmented[i][p + 1],
                      RSum([j \in 1..(p - i) |-> RMul(augmented[i][i + j], B[i + j])])),
                 augmented[i][i])
    IN  [i \in 1..p |-> B[i]]

\* solveLinearRegression: the normal equations, solved by Gaussian elimination
solveLinearRegression(Y, X) ==
    IF Len(Y) = 0 \/ Len(Y) # Len(X) THEN [status |-> "invalid", beta |-> <<>>]
    ELSE LET p         == Len(Y[1])
             augmented == [i \in 1..p |->
                              [j \in 1..(p + 1) |->
                                  IF j <= p THEN columnProduct(Y, i, j)
                                  ELSE columnTimes(Y, X, i)]]
             solved    == forwardElimination(augmented)
         IN  IF solved.singular THEN [status |-> "singular", beta |-> <<>>]
             ELSE [status |-> "ok", beta |-> backSubstitution(solved.augmented)]

\* the samples that hold a continuous value for the variable and for every parent
regressionRows(variable, parents, data) ==
    SelectSeq(data, LAMBDA sample :
                        /\ variable \in DOMAIN sample.Continuous
                        /\ \A q \in Range(parents) : q \in DOMAIN sample.Continuous)

\* "predicted := intercept; predicted += parentCoeffs[p] * row[j+1]"
predicted(beta, row) == RSum([j \in DOMAIN row |-> RMul(beta[j], row[j])])

\* "variance := sumSqResid / float64(len(xVals))"
residualVariance(beta, Y, X) ==
    RDiv(RSum([i \in DOMAIN Y |->
                  LET residual == RSub(X[i], predicted(beta, Y[i]))
                  IN  RMul(residual, residual)]),
         Rat(Len(X), 1))

\* the branch without parents: mean and variance of the values of the variable
learnGaussianMarginal(variable, data) ==
    LET vals  == regressionRows(variable, <<>>, data)
        x     == [i \in DOMAIN vals |-> vals[i].Continuous[variable]]
        count == Rat(Len(x), 1)
        mean  == RDiv(RSum(x), count)
    IN  IF Len(x) = 0 THEN GaussianLearnFailed("nodata", 0)
        ELSE gaussianLearnt(
                 NewLinearGaussianCPD(variable, <<>>, mean, EmptyMap,
                     floorVariance(RSub(RDiv(RSum([i \in DOMAIN x |-> RMul(x[i], x[i])]),
                                             count),
                                        RMul(mean, mean)))),
                 Len(x))

\* "if len(xVals) < len(parents)+1" is the refusal
enoughRows(n, p) == n >= p + 1

\* the branch with parents none of which is discrete: least squares
learnGaussianRegression(variable, parents, data) ==
    LET rows   == regressionRows(variable, parents, data)
        xVals  == [i \in DOMAIN rows |-> rows[i].Continuous[variable]]
        yMatrix == [i \in DOMAIN rows |->
                      [j \in 1..(Len(parents) + 1) |->
                          IF j = 1 THEN ROne ELSE rows[i].Continuous[parents[j - 1]]]]
        solved == solveLinearRegression(yMatrix, xVals)
    IN  IF ~enoughRows(Len(xVals), Len(parents))
        THEN GaussianLearnFailed("insufficient", Len(xVals))
        ELSE IF solved.status # "ok" THEN GaussianLearnFailed(solved.status, Len(xVals))
        ELSE gaussianLearnt(
                 NewLinearGaussianCPD(variable, parents, solved.beta[1],
                     [q \in Range(parents) |-> solved.beta[IndexOf(parents, q) + 1]],
                     floorVariance(residualVariance(solved.beta, yMatrix, xVals))),
                 Len(xVals))

learnGaussianCPDFromMixed(bn, variable, data) ==
    LET parents == Parents(bn.DAG, variable)
    IN  IF Len(parents) = 0 THEN learnGaussianMarginal(variable, data)
        ELSE IF \A q \in Range(parents) : ~IsDiscrete(bn, q)
        THEN learnGaussianRegression(variable, parents, data)
        ELSE GaussianLearnFailed("notimplemented",
                                 Len(regressionRows(variable, parents, data)))

\* what one turn of the loop of FitMixed did: the node, the kind of CPD it
\* tried to learn, the parents of the node, whether one of them was discrete,
\* the number of rows with the node and all its parents, and the outcome
fitStep(bn, node, kind, n, status) ==
    [node |-> node, kind |-> kind, parents |-> Parents(bn.DAG, node),
     discreteParent |-> \E q \in ParentsOf(bn.DAG, node) : IsDiscrete(bn, q),
     n |-> n, status |-> status]

fitMixedDiscrete(done, node, learnt) ==
    IF learnt.status # "ok"
    THEN [status |-> learnt.status, bn |-> done.bn,
          steps  |-> Append(done.steps, fitStep(done.bn, node, "tabular", 0, learnt.status))]
    ELSE [status |-> "ok",
          bn     |-> [done.bn EXCEPT
                         !.CPDs = MapSet(done.bn.CPDs, node, learnt.cpd),
                         !.VariableType = MapSet(done.bn.VariableType, node, Discrete),
                         !.Cardinality = RecordCardinality(done.bn.Cardinality, learnt.cpd)],
          steps  |-> Append(done.steps, fitStep(done.bn, node, "tabular", 0, "ok"))]

\* the Gaussian CPD learnt is stored; the type is recorded when the node had none
fitMixedGaussian(done, node, learnt, typed) ==
    IF learnt.status # "ok"
    THEN [status |-> learnt.status, bn |-> done.bn,
          steps  |-> Append(done.steps,
                            fitStep(done.bn, node, "gaussian", learnt.n, learnt.status))]
    ELSE [status |-> "ok",
          bn     |-> [done.bn EXCEPT
                         !.GaussianCPDs = MapSet(done.bn.GaussianCPDs, node, learnt.cpd),
                         !.VariableType =
                             IF typed THEN @ ELSE MapSet(@, node, Continuous)],
          steps  |-> Append(done.steps,
                            fitStep(done.bn, node, "gaussian", learnt.n, "ok"))]

\* one turn of the loop of FitMixed
fitMixedNode(done, node, data) ==
    IF IsDiscrete(done.bn, node) \/ node \notin DOMAIN done.bn.VariableType
    THEN IF \E i \in DOMAIN data : node \in DOMAIN data[i].Discrete
         THEN fitMixedDiscrete(done, node, learnDiscreteCPDFromMixed(done.bn, node, data))
         ELSE IF \E i \in DOMAIN data : node \in DOMAIN data[i].Continuous
         THEN fitMixedGaussian(done, node,
                               learnGaussianCPDFromMixed(done.bn, node, data), FALSE)
         ELSE done
    ELSE IF IsContinuous(done.bn, node)
    THEN fitMixedGaussian(done, node, learnGaussianCPDFromMixed(done.bn, node, data), TRUE)
    ELSE done

FitMixed(bn, data) ==
    LET nodes == Nodes(bn.DAG)
        F[i \in 0..Len(nodes)] ==
            IF i = 0 THEN [status |-> "ok", bn |-> bn, steps |-> <<>>]
            ELSE LET prev == F[i - 1]
                 IN  IF prev.status # "ok" THEN prev
                     ELSE fitMixedNode(prev, nodes[i], data)
    IN  F[Len(nodes)]

-----------------------------------------------------------------------------
(* graph.UndirectedGraph: edges[node] is the set of the node's neighbours *)

NewUndirectedGraph == [nodes |-> {}, edges |-> <<>>]

UndirectedAddNode(g, node) ==
    IF node \in g.nodes
    THEN g
    ELSE [nodes |-> g.nodes \cup {node},
          edges |-> [n \in DOMAIN g.edges \cup {node} |->
                        IF n = node THEN {} ELSE g.edges[n]]]

UndirectedAddEdge(g, node1, node2) ==
    LET g2 == UndirectedAddNode(UndirectedAddNode(g, node1), node2)
    IN  [g2 EXCEPT !.edges = [n \in DOMAIN g2.edges |->
                                 IF n = node1 THEN g2.edges[n] \cup {node2}
                                 ELSE IF n = node2 THEN g2.edges[n] \cup {node1}
                                 ELSE g2.edges[n]]]

UndirectedRemoveEdge(g, node1, node2) ==
    [g EXCEPT !.edges = [n \in DOMAIN g.edges |->
                            IF n = node1 THEN g.edges[n] \ {node2}
                            ELSE IF n = node2 THEN g.edges[n] \ {node1}
                            ELSE g.edges[n]]]

UndirectedHasEdge(g, node1, node2) ==
    node1 \in DOMAIN g.edges /\ node2 \in g.edges[node1]

\* the neighbours of a node, sorted
Neighbors(g, node) ==
    IF node \in DOMAIN g.edges THEN SortStrings(g.edges[node]) ELSE <<>>

-----------------------------------------------------------------------------
(* estimators.PCEstimator.  Estimate is followed step by step: pc holds the *)
(* loop variables of skeleton discovery, the undirected graph, the          *)
(* separating sets, and then the maps of oriented and unoriented edges, the *)
(* position in the range loops over them and the DAG under construction.    *)
(*                                                                          *)
(* ChiSquareTest is a function of the data.  The data are not modelled:     *)
(* whether its p-value exceeds Alpha is drawn when a test is first made and *)
(* remembered in pc.tests, so that one run sees one dataset.  The statistic *)
(* is a sum over the cells of the contingency table of x and y, so testing  *)
(* x against y and y against x given the same variables agree.              *)

\* the most variables the data have
MaxVariables == 5

\* the most pairs the data show independent given a non-empty set
MaxConditionalIndependences == 1

\* NewPC: the variables found in the data, sorted
VariablesOf(n) == [i \in 1..n |-> i]

\* the complete undirected graph Estimate starts with
RECURSIVE addAllEdges(_, _, _, _)
addAllEdges(ug, variables, i, j) ==
    IF i > Len(variables) THEN ug
    ELSE IF j > Len(variables) THEN addAllEdges(ug, variables, i + 1, i + 2)
    ELSE addAllEdges(UndirectedAddEdge(ug, variables[i], variables[j]), variables, i, j + 1)

RECURSIVE addAllNodes(_, _, _)
addAllNodes(ug, variables, i) ==
    IF i > Len(variables) THEN ug
    ELSE addAllNodes(UndirectedAddNode(ug, variables[i]), variables, i + 1)

completeGraph(variables) ==
    addAllEdges(addAllNodes(NewUndirectedGraph, variables, 1), variables, 1, 2)

\* the combinations of size k, those with the first element first
RECURSIVE combinations(_, _)
combinations(elements, k) ==
    IF k = 0 THEN << <<>> >>
    ELSE IF Len(elements) = 0 \/ Len(elements) < k THEN <<>>
    ELSE LET rest == Tail(elements)
             withFirst == combinations(rest, k - 1)
         IN  [c \in 1..Len(withFirst) |-> <<Head(elements)>> \o withFirst[c]]
                 \o combinations(rest, k)

\* neighbors without y, in order
RECURSIVE potentialCond(_, _)
potentialCond(neighbors, y) ==
    IF neighbors = <<>> THEN <<>>
    ELSE IF Head(neighbors) = y THEN potentialCond(Tail(neighbors), y)
    ELSE <<Head(neighbors)>> \o potentialCond(Tail(neighbors), y)

\* sepSets[x][y]: a missing entry reads as the nil slice
sepSetOf(sepSets, x, y) ==
    IF <<x, y>> \in DOMAIN sepSets THEN sepSets[<<x, y>>] ELSE <<>>

NoPC ==
    [at |-> "idle", Variables |-> <<>>, ug |-> NewUndirectedGraph, sepSets |-> EmptyMap,
     tests |-> {},
     condSetSize |-> 0, changed |-> FALSE, x |-> 0, neighbors |-> <<>>, y |-> 0,
     condSets |-> <<>>, c |-> 0,
     oriented |-> EmptyMap, unoriented |-> EmptyMap, rule |-> 0, callChanged |-> FALSE,
     keys |-> {}, i |-> 0, js |-> {}, dag |-> NewDAG]

\* Estimate up to the loop over the conditioning set sizes
estimateStart(n) ==
    [NoPC EXCEPT !.at = "passes", !.Variables = VariablesOf(n),
                 !.ug = completeGraph(VariablesOf(n))]

\* the loop variables of phase 1 go out of scope
leavePhase1(p) ==
    [p EXCEPT !.at = "vstructures", !.condSetSize = 0, !.changed = FALSE, !.x = 0,
              !.neighbors = <<>>, !.y = 0, !.condSets = <<>>, !.c = 0]

\* for condSetSize := 0; condSetSize <= maxCondSetSize: changed := false
nextPass(p) ==
    IF p.condSetSize <= Len(p.Variables) - 2
    THEN [p EXCEPT !.at = "nodes", !.changed = FALSE, !.x = 1]
    ELSE leavePhase1(p)

\* for _, x := range pc.Variables: neighbors := ug.Neighbors(x); after the last
\* node, the pass ends
nextNode(p) ==
    IF p.x <= Len(p.Variables)
    THEN [p EXCEPT !.at = "neighbors", !.neighbors = Neighbors(p.ug, p.Variables[p.x]),
                   !.y = 1]
    ELSE IF ~p.changed /\ p.condSetSize > 0
         THEN leavePhase1(p)
         ELSE [p EXCEPT !.at = "passes", !.condSetSize = @ + 1, !.x = 0]

\* for _, y := range neighbors: the conditioning sets of the pair
nextNeighbor(p) ==
    IF p.y <= Len(p.neighbors)
    THEN [p EXCEPT !.at = "condSets",
                   !.condSets = combinations(potentialCond(p.neighbors, p.neighbors[p.y]),
                                             p.condSetSize),
                   !.c = 1]
    ELSE [p EXCEPT !.at = "nodes", !.x = @ + 1, !.neighbors = <<>>, !.y = 0]

\* the break out of the loop over the neighbours, to the next node
breakNeighbors(p) ==
    [p EXCEPT !.at = "nodes", !.x = @ + 1, !.neighbors = <<>>, !.y = 0,
              !.condSets = <<>>, !.c = 0]

TestOf(x, y, condSet, independent) ==
    [pair |-> {x, y}, given |-> Range(condSet), independent |-> independent]

\* one ChiSquareTest of x and y given condSet, and what follows from
\* pValue > pc.Alpha
testCondSet(p, independent) ==
    LET x == p.Variables[p.x]
        y == p.neighbors[p.y]
        condSet == p.condSets[p.c]
        q == [p EXCEPT !.tests = @ \cup {TestOf(x, y, condSet, independent)}]
    IN  IF independent
        THEN breakNeighbors(
                 [q EXCEPT !.ug = UndirectedRemoveEdge(p.ug, x, y),
                           !.sepSets = MapSet(MapSet(p.sepSets, <<x, y>>, condSet),
                                              <<y, x>>, condSet),
                           !.changed = TRUE])
        ELSE [q EXCEPT !.c = @ + 1]

\* after the loop over the conditioning sets: if changed { break }
afterCondSets(p) ==
    IF p.changed
    THEN breakNeighbors(p)
    ELSE [p EXCEPT !.at = "neighbors", !.y = @ + 1, !.condSets = <<>>, !.c = 0]

\* what the data can answer to the test the run is about to make
ConditionalIndependences(p) ==
    {t \in p.tests : t.independent /\ t.given # {}}

TestOutcomes(p) ==
    LET x == p.Variables[p.x]
        y == p.neighbors[p.y]
        given == Range(p.condSets[p.c])
        made == {t \in p.tests : t.pair = {x, y} /\ t.given = given}
    IN  IF made # {} THEN {t.independent : t \in made}
        ELSE IF given # {} /\ Cardinality(ConditionalIndependences(p)) >= MaxConditionalIndependences
             THEN {FALSE}
             ELSE BOOLEAN

\* orientEdge: the arrow parent -> child is recorded and the pair leaves the
\* unoriented edges; an arrow child -> parent recorded earlier stays
orientEdge(p, parent, child) ==
    [p EXCEPT !.oriented[parent] = @ \cup {child},
              !.unoriented[parent] = @ \ {child},
              !.unoriented[child] = @ \ {parent}]

\* orientEdges up to Rule 0: the nodes of the DAG, no arrow, every edge of
\* ug.Edges() unoriented in both directions
RECURSIVE addNodes(_, _, _)
addNodes(d, nodes, k) ==
    IF k > Len(nodes) THEN d ELSE addNodes(AddNode(d, nodes[k]), nodes, k + 1)

beginOrient(p) ==
    [p EXCEPT !.dag = addNodes(NewDAG, SortStrings(p.ug.nodes), 1),
              !.oriented = [v \in Range(p.Variables) |-> {}],
              !.unoriented = [v \in Range(p.Variables) |-> p.ug.edges[v]]]

\* a slip: only the arrow out of the first neighbour is recorded
orientVStructure_FirstArrowOnly(p, x, z, y) ==
    IF ~UndirectedHasEdge(p.ug, x, y)
    THEN LET sepSet == sepSetOf(p.sepSets, x, y)
             zInSepSet == \E idx \in DOMAIN sepSet : sepSet[idx] = z
         IN  IF ~zInSepSet THEN orientEdge(p, x, z) ELSE p
    ELSE p

\* Rule 0 for the neighbours x and y of z
orientVStructure(p, x, z, y) ==
    IF ~UndirectedHasEdge(p.ug, x, y)
    THEN LET sepSet == sepSetOf(p.sepSets, x, y)
             zInSepSet == \E idx \in DOMAIN sepSet : sepSet[idx] = z
         IN  IF ~zInSepSet THEN orientEdge(orientEdge(p, x, z), y, z) ELSE p
    ELSE p

\* for i := 0 ..; for j := i + 1 ..: the pairs of neighbours of z
RECURSIVE rule0Pairs(_, _, _, _, _)
rule0Pairs(p, z, neighbors, i, j) ==
    IF i > Len(neighbors) THEN p
    ELSE IF j > Len(neighbors) THEN rule0Pairs(p, z, neighbors, i + 1, i + 2)
    ELSE rule0Pairs(orientVStructure(p, neighbors[i], z, neighbors[j]),
                    z, neighbors, i, j + 1)

RECURSIVE rule0Nodes(_, _)
rule0Nodes(p, k) ==
    IF k > Len(p.Variables) THEN p
    ELSE rule0Nodes(rule0Pairs(p, p.Variables[k], Neighbors(p.ug, p.Variables[k]), 1, 2),
                    k + 1)

\* orientEdges up to the loop over Meek's rules
orientVStructures(p) == [rule0Nodes(beginOrient(p), 1) EXCEPT !.at = "meek"]

\* changed := true
enterMeek(p) == [p EXCEPT !.at = "round", !.changed = TRUE]

\* the map a range statement walks at this position
rangedMap(p) == IF p.at = "oriented" THEN p.oriented ELSE p.unoriented

\* The keys a range statement has still to visit.  A key whose map is empty
\* gives no iteration of the inner loop wherever it comes in the order, and
\* the maps walked only lose entries, so such keys are dropped at once.
live(p) == [p EXCEPT !.keys = {k \in @ : rangedMap(p)[k] # {}}]

\* for changed { changed = false; applyMeekRule1 .. }, or on to the DAG
nextRound(p) ==
    IF p.changed
    THEN live([p EXCEPT !.at = "rules", !.changed = FALSE, !.rule = 1,
                        !.callChanged = FALSE, !.keys = Range(p.Variables)])
    ELSE live([p EXCEPT !.at = "oriented", !.keys = Range(p.Variables)])

\* for i, neighbors := range ..: the next key, in whatever order the map gives
rangeKey(p, k) == [p EXCEPT !.keys = @ \ {k}, !.i = k, !.js = rangedMap(p)[k]]

\* a slip: changed = pc.applyMeekRule4(..) without the || changed
rangeEnd_LastRuleOnly(p) ==
    IF p.at = "rules"
    THEN IF p.rule < 4
         THEN live([p EXCEPT !.changed = p.callChanged \/ @, !.rule = @ + 1,
                             !.callChanged = FALSE, !.keys = Range(p.Variables),
                             !.i = 0])
         ELSE [p EXCEPT !.at = "round", !.changed = p.callChanged, !.rule = 0,
                        !.callChanged = FALSE, !.i = 0]
    ELSE IF p.at = "oriented"
         THEN live([p EXCEPT !.at = "unoriented", !.keys = Range(p.Variables), !.i = 0])
         ELSE [p EXCEPT !.at = "done", !.i = 0]

\* the end of a range statement over the keys
rangeEnd(p) ==
    IF p.at = "rules"
    THEN IF p.rule < 4
         THEN live([p EXCEPT !.changed = p.callChanged \/ @, !.rule = @ + 1,
                             !.callChanged = FALSE, !.keys = Range(p.Variables),
                             !.i = 0])
         ELSE [p EXCEPT !.at = "round", !.changed = p.callChanged \/ @, !.rule = 0,
                        !.callChanged = FALSE, !.i = 0]
    ELSE IF p.at = "oriented"
         THEN live([p EXCEPT !.at = "unoriented", !.keys = Range(p.Variables), !.i = 0])
         ELSE [p EXCEPT !.at = "done", !.i = 0]

\* Rule 1: k -> i with k and j not adjacent
meekRule1(p, i, j) ==
    \E k \in DOMAIN p.oriented :
        i \in p.oriented[k] /\ ~UndirectedHasEdge(p.ug, k, j) /\ k # j

\* Rule 2: i -> k -> j
meekRule2(p, i, j) ==
    \E k \in p.oriented[i] : j \in p.oriented[k] /\ k # j

\* Rule 3: the candidates k with i - k -> j
rule3Candidates(p, i, j) ==
    {k \in p.unoriented[i] : j \in p.oriented[k] /\ k # j}

\* Two candidates that are not adjacent.  The flag changed tested after the
\* inner loop is the one of the whole call: once the call has oriented an
\* edge, only the pairs with the first candidate are looked at.
meekRule3(p, i, j, first) ==
    LET candidates == rule3Candidates(p, i, j)
    IN  IF p.callChanged
        THEN first \in candidates
             /\ \E l \in candidates \ {first} : ~UndirectedHasEdge(p.ug, first, l)
        ELSE \E k, l \in candidates : k # l /\ ~UndirectedHasEdge(p.ug, k, l)

\* Rule 4: the k with i - k, k and j not adjacent
rule4Candidates(p, i, j) ==
    {k \in p.unoriented[i] : ~UndirectedHasEdge(p.ug, k, j) /\ k # j}

rule4Chain(p, k, j) ==
    \E l \in p.oriented[k] : j \in p.oriented[l] /\ l # j

\* as in Rule 3, once the call has oriented an edge only the first such k is
\* looked at
meekRule4(p, i, j, first) ==
    LET candidates == rule4Candidates(p, i, j)
    IN  IF p.callChanged
        THEN first \in candidates /\ rule4Chain(p, first, j)
        ELSE \E k \in candidates : rule4Chain(p, k, j)

\* the candidates the map order can put first, where that matters
firstChoices(p, j) ==
    LET candidates == IF p.rule = 3 THEN rule3Candidates(p, p.i, j)
                      ELSE IF p.rule = 4 THEN rule4Candidates(p, p.i, j)
                      ELSE {}
    IN  IF p.callChanged /\ candidates # {} THEN candidates ELSE {0}

meekRule(p, i, j, first) ==
    IF p.rule = 1 THEN meekRule1(p, i, j)
    ELSE IF p.rule = 2 THEN meekRule2(p, i, j)
    ELSE IF p.rule = 3 THEN meekRule3(p, i, j, first)
    ELSE meekRule4(p, i, j, first)

\* one iteration of for j := range neighbors in applyMeekRule1 .. 4
meekVisit(p, j, first) ==
    LET q == [p EXCEPT !.js = @ \ {j}]
    IN  IF p.i \notin p.unoriented[j] THEN q
        ELSE IF meekRule(p, p.i, j, first)
             THEN live([orientEdge(q, p.i, j) EXCEPT !.callChanged = TRUE])
             ELSE q

\* _ = dag.AddEdge(parent, child): the error is dropped
addOriented(p, child) ==
    [p EXCEPT !.js = @ \ {child}, !.dag = AddEdge(p.dag, p.i, child).dag]

\* an edge still unoriented goes from the smaller name to the larger
addUnoriented(p, node2) ==
    LET node1 == p.i
        q == [p EXCEPT !.js = @ \ {node2}]
    IN  IF node1 < node2 /\ node1 \in p.unoriented[node2]
        THEN IF ~HasEdge(p.dag, node1, node2) /\ ~HasEdge(p.dag, node2, node1)
             THEN [q EXCEPT !.dag = AddEdge(p.dag, node1, node2).dag]
             ELSE q
        ELSE q

-----------------------------------------------------------------------------
(* Idle values of the call records, and each state machine at rest *)

NoRet == [op |-> "none", err |-> FALSE, order |-> <<>>]

NoFacRet ==
    [op |-> "none", other |-> NoFactor, variables |-> {}, evidence |-> EmptyMap,
     before |-> NoFactor, ret |-> RetErr]

NoCpdRet ==
    [op |-> "none", varState |-> 0, evidenceValues |-> EmptyMap, ret |-> RetErr,
     value |-> [status |-> "err", value |-> RZero]]

IdleDAG == dag = NewDAG /\ dagRet = NoRet /\ allAddsOk = TRUE

IdleFactor == fA = NoFactor /\ facRet = NoFacRet

IdleCPD == cpd = NoCPD /\ cpdRet = NoCpdRet

NoVeRet ==
    [op |-> "none", variables |-> {}, evidence |-> EmptyMap, order |-> <<>>,
     ret |-> RetErr, assignment |-> [status |-> "err", assignment |-> EmptyMap]]

IdleVE == net = EmptyNetwork /\ veRet = NoVeRet

NoBnRet == [op |-> "none", observations |-> <<>>, ret |-> PredictFailed("err")]

IdleBN == bnRet = NoBnRet

IdleSim == sim = NoSim

IdleFit == fit = NoFit

IdlePC == pc = NoPC

NoMixedEvidence == [Discrete |-> EmptyMap, Continuous |-> EmptyMap]

NoMix ==
    [op |-> "none", discreteVars |-> {}, continuousVars |-> {},
     evidence |-> NoMixedEvidence, order |-> <<>>, gorder |-> <<>>,
     ret |-> [status |-> "err", result |-> NoMixedResult], shares |-> {}]

IdleMix == mix = NoMix

-----------------------------------------------------------------------------
(* The factor calls as a state machine.  The calls are pure: they return a  *)
(* fresh factor and leave the receiver alone, so each behaviour draws a    *)
(* receiver and applies one call to it.                                    *)

\* the lists of distinct names of VarNames that are exactly n long
RECURSIVE VarLists(_)
VarLists(n) ==
    IF n = 0 THEN {<<>>}
    ELSE UNION {{Append(l, v) : v \in VarNames \ Range(l)} : l \in VarLists(n - 1)}

\* two tables of pairwise different values, so that a misplaced entry shows
ValuePatterns == {1, 2}

PatternValue(p, i) == IF p = 1 THEN Rat(i, 1) ELSE Rat(i * i + 1, 3)

\* the well-formed factors: distinct variables, a cardinality of 1..MaxCard
\* for each of them and for nothing else, len(Values) the product
FactorsOver(l) ==
    {[Variables   |-> l,
      Cardinality |-> c,
      Values      |-> [i \in 1..SizeOf(l, c) |-> PatternValue(p, i)]] :
        c \in [Range(l) -> 1..MaxCard], p \in ValuePatterns}

InputFactors == UNION {FactorsOver(l) : l \in UNION {VarLists(n) : n \in 0..MaxFactorVars}}

\* evidence maps over any of the names, with states in and out of range
EvidenceMaps == UNION {[D -> (-1)..MaxCard] : D \in SUBSET VarNames}

InitFactor ==
    /\ fA \in InputFactors
    /\ facRet = NoFacRet
    /\ IdleDAG
    /\ IdleCPD
    /\ IdleVE
    /\ IdleBN
    /\ IdleSim
    /\ IdleFit
    /\ IdlePC
    /\ IdleMix

DoMultiply ==
    /\ facRet.op = "none"
    /\ \E other \in InputFactors :
           /\ facRet' = [NoFacRet EXCEPT !.op = "Multiply", !.other = other,
                                         !.ret = Multiply(fA, other)]
           /\ UNCHANGED <<fA, notFac>>

DoMarginalize ==
    /\ facRet.op = "none"
    /\ \E variables \in SUBSET VarNames :
           /\ facRet' = [NoFacRet EXCEPT !.op = "Marginalize", !.variables = variables,
                                         !.ret = Marginalize(fA, variables)]
           /\ UNCHANGED <<fA, notFac>>

DoReduce ==
    /\ facRet.op = "none"
    /\ \E evidence \in EvidenceMaps :
           /\ facRet' = [NoFacRet EXCEPT !.op = "Reduce", !.evidence = evidence,
                                         !.ret = Reduce(fA, evidence)]
           /\ UNCHANGED <<fA, notFac>>

NextFactor == DoMultiply \/ DoMarginalize \/ DoReduce

SpecFactor == InitFactor /\ [][NextFactor]_vars

-----------------------------------------------------------------------------
(* Normalize as a state machine: a factor is drawn, then normalized in place
   any number of times *)

\* a third table, of pairwise different values that sum to zero
ZeroSumValue(i, size) == Rat(2 * i - (size + 1), 1)

ZeroSumFactorsOver(l) ==
    {[Variables   |-> l,
      Cardinality |-> c,
      Values      |-> [i \in 1..SizeOf(l, c) |-> ZeroSumValue(i, SizeOf(l, c))]] :
        c \in [Range(l) -> 1..MaxCard]}

NormalizeInputs ==
    InputFactors \cup
    UNION {ZeroSumFactorsOver(l) : l \in UNION {VarLists(n) : n \in 0..MaxFactorVars}}

InitNormalize ==
    /\ fA \in NormalizeInputs
    /\ facRet = NoFacRet
    /\ IdleDAG
    /\ IdleCPD
    /\ IdleVE
    /\ IdleBN
    /\ IdleSim
    /\ IdleFit
    /\ IdlePC
    /\ IdleMix

\* f.Normalize(): on an error the values are as they were, otherwise the
\* receiver holds the rescaled values
DoNormalize ==
    LET r == Normalize(fA)
    IN  /\ fA' = IF r.status = "ok" THEN r.factor ELSE fA
        /\ facRet' = [NoFacRet EXCEPT !.op = "Normalize", !.before = fA, !.ret = r]
        /\ UNCHANGED notFac

NextNormalize == DoNormalize

SpecNormalize == InitNormalize /\ [][NextNormalize]_vars

-----------------------------------------------------------------------------
(* The CPD calls as a state machine: a CPD is drawn, then called *)

\* two tables: rows of sixteenths that differ from row to row (1), and 0/1
\* rows (2); networks have a third: the rows of sixteenths with every other
\* row reversed (3), so that the likeliest state of a variable depends on the
\* states of its parents
CPDPatterns == {1, 2}

\* row r (from 0) of sixteenths for a variable of c states, summing to 1:
\* with k = r mod 5, the states but the last get (k + s) / 16 and the last
\* state gets the rest
SixteenthsRow(r, c) ==
    [s \in 1..c |->
        IF s < c
        THEN Rat((r % 5) + s, 16)
        ELSE Rat(16 - (c - 1) * (r % 5) - ((c - 1) * c) \div 2, 16)]

\* row r (from 0) of a table of pattern p for a variable of c states
PatternRow(p, r, c) ==
    [s \in 1..c |->
        IF p = 1 THEN SixteenthsRow(r, c)[s]
        ELSE IF p = 3
        THEN SixteenthsRow(r, c)[IF r % 2 = 1 THEN c + 1 - s ELSE s]
        ELSE IF s - 1 = r % c THEN ROne ELSE RZero]

\* the CPD of variable v with the parents in the declared order evidence
TableOf(v, vc, evidence, ec, p) ==
    [Variable     |-> v,
     VariableCard |-> vc,
     Evidence     |-> evidence,
     EvidenceCard |-> ec,
     Values       |-> [r \in 1..SizeOf(evidence, ec) |-> PatternRow(p, r - 1, vc)]]

CPDsOf(v, evidence) ==
    {TableOf(v, vc, evidence, ec, p) :
        vc \in 1..MaxCard, ec \in [Range(evidence) -> 1..MaxCard], p \in CPDPatterns}

\* the CPDs NewTabularCPD accepts, over distinct parents other than the variable
InputCPDs ==
    {c \in UNION {CPDsOf(v, l) : v \in VarNames, l \in ListsOver(VarNames, MaxParents)} :
        /\ c.Variable \notin Range(c.Evidence)
        /\ ~NewTabularCPDFails(c.Variable, c.VariableCard, c.Values, c.Evidence, c.EvidenceCard)}

InitCPD ==
    /\ cpd \in InputCPDs
    /\ cpdRet = NoCpdRet
    /\ IdleDAG
    /\ IdleFactor
    /\ IdleVE
    /\ IdleBN
    /\ IdleSim
    /\ IdleFit
    /\ IdlePC
    /\ IdleMix

DoToFactor ==
    /\ cpdRet.op = "none"
    /\ cpdRet' = [NoCpdRet EXCEPT !.op = "ToFactor", !.ret = ToFactor(cpd)]
    /\ UNCHANGED <<cpd, notCpd>>

DoGetValue ==
    /\ cpdRet.op = "none"
    /\ \E varState \in (-1)..MaxCard,
          evidenceValues \in UNION {[D -> 0..(MaxCard - 1)] : D \in SUBSET VarNames} :
           /\ cpdRet' = [NoCpdRet EXCEPT !.op = "GetValue", !.varState = varState,
                                         !.evidenceValues = evidenceValues,
                                         !.value = GetValue(cpd, varState, evidenceValues)]
           /\ UNCHANGED <<cpd, notCpd>>

NextCPD == DoToFactor \/ DoGetValue

SpecCPD == InitCPD /\ [][NextCPD]_vars

-----------------------------------------------------------------------------
(* Variable elimination as a state machine: a network is built with        *)
(* NewBayesianNetwork, DAG.AddNode and AddCPD and passes CheckModel in      *)
(* NewVariableElimination; then Query or MAP is called on it.               *)

\* the edges a network may be built from
NetEdgePairs == {e \in VarNames \X VarNames : e[1] # e[2]}

\* a set of edges as the list handed to NewBayesianNetwork
RECURSIVE EdgeList(_)
EdgeList(E) ==
    IF E = {} THEN <<>>
    ELSE LET e == CHOOSE x \in E :
                    \A y \in E : x[1] < y[1] \/ (x[1] = y[1] /\ x[2] <= y[2])
         IN  <<e>> \o EdgeList(E \ {e})

\* the states of each variable: MaxCard throughout, or differing by variable
UniformCard == [v \in VarNames |-> MaxCard]

GradedCard == [v \in VarNames |-> 1 + (v % MaxCard)]

\* the cardinalities and the table pattern of a consistent network
TableChoices ==
    {<<UniformCard, 1>>, <<UniformCard, 2>>, <<UniformCard, 3>>,
     <<GradedCard, 1>>}

\* no CPD declares a parent's cardinality wrongly
NoSlip == <<0, 0>>

\* the cardinality the CPD of child declares for its parent: the parent's own,
\* or another one when slip is the edge from parent to child
DeclaredCard(k, slip, parent, child) ==
    IF slip = <<parent, child>> THEN 1 + (k[parent] % MaxCard) ELSE k[parent]

\* DAG.AddNode for every node of S
RECURSIVE AddNodes(_, _)
AddNodes(d, S) ==
    IF S = {} THEN d
    ELSE LET n == CHOOSE x \in S : TRUE
         IN  AddNodes(AddNode(d, n), S \ {n})

\* AddCPD for every CPD of the list, in order; err when one is rejected
RECURSIVE AddCPDs(_, _)
AddCPDs(bn, cpds) ==
    IF cpds = <<>> THEN [err |-> FALSE, bn |-> bn]
    ELSE LET r == AddCPD(bn, cpds[1])
         IN  IF r.err THEN r ELSE AddCPDs(r.bn, Tail(cpds))

\* the DAGs of the networks: NewBayesianNetwork on an edge list it accepts,
\* then DAG.AddNode for further nodes
InputDAGs ==
    {AddNodes(made.bn.DAG, extra) :
        made \in {m \in {NewBayesianNetwork(EdgeList(E)) : E \in SUBSET NetEdgePairs} : ~m.err},
        extra \in SUBSET VarNames}

\* the orders in which the CPDs of d may declare their parents
ParentOrders(d) ==
    {po \in [d.nodes -> ListsOver(VarNames, MaxParents)] :
        \A v \in d.nodes : po[v] \in OrdersOf(ParentsOf(d, v))}

\* the network on d, variable v with k[v] states, parents declared in the
\* order po[v], tables of pattern p, the CPDs added in the order of the names
BuildNetwork(d, k, po, p, slip) ==
    LET bn    == [EmptyNetwork EXCEPT !.DAG = d]
        nodes == Nodes(d)
        cpds  == [i \in DOMAIN nodes |->
                    TableOf(nodes[i], k[nodes[i]], po[nodes[i]],
                            [e \in Range(po[nodes[i]]) |->
                                DeclaredCard(k, slip, e, nodes[i])], p)]
    IN  IF \E i \in DOMAIN cpds :
                NewTabularCPDFails(cpds[i].Variable, cpds[i].VariableCard,
                                   cpds[i].Values, cpds[i].Evidence,
                                   cpds[i].EvidenceCard)
        THEN [err |-> TRUE, bn |-> bn]
        ELSE AddCPDs(bn, cpds)

\* the first edge of d, if it has one
SlipEdges(d) ==
    LET E == {e \in NetEdgePairs : e[2] \in EdgesOf(d, e[1])}
    IN  IF E = {} THEN {} ELSE {EdgeList(E)[1]}

\* the networks on d: the consistent ones, and those of MaxCard states and
\* the first pattern in which the CPD at the head of the first edge declares
\* the cardinality of that parent wrongly
NetworksOn(d) ==
    {BuildNetwork(d, t[1], po, t[2], NoSlip) : t \in TableChoices, po \in ParentOrders(d)}
    \cup
    {BuildNetwork(d, UniformCard, po, 1, slip) : po \in ParentOrders(d), slip \in SlipEdges(d)}

\* the networks NewVariableElimination accepts
InputNetworks ==
    {r.bn : r \in {b \in UNION {NetworksOn(d) : d \in InputDAGs} : ~b.err /\ ~CheckModel(b.bn)}}

\* evidence on at most MaxEvidence of the nodes, every state within the model's cardinality
NetEvidence(bn) ==
    UNION {{e \in [D -> 0..(MaxCard - 1)] : \A v \in D : e[v] < MapGet(bn.Cardinality, v)} :
              D \in {S \in SUBSET bn.DAG.nodes : Cardinality(S) <= MaxEvidence}}

InitVE ==
    /\ net \in InputNetworks
    /\ veRet = NoVeRet
    /\ IdleDAG
    /\ IdleFactor
    /\ IdleCPD
    /\ IdleBN
    /\ IdleSim
    /\ IdleFit
    /\ IdlePC
    /\ IdleMix

DoQuery ==
    /\ veRet.op = "none"
    /\ \E variables \in SUBSET VarNames, evidence \in NetEvidence(net),
          order \in OrdersOf(DOMAIN net.CPDs) :
           /\ veRet' = [NoVeRet EXCEPT !.op = "Query", !.variables = variables,
                                       !.evidence = evidence, !.order = order,
                                       !.ret = Query(net, order, variables, evidence)]
           /\ UNCHANGED <<net, notVE>>

DoMAP ==
    /\ veRet.op = "none"
    /\ \E variables \in SUBSET VarNames, evidence \in NetEvidence(net),
          order \in OrdersOf(DOMAIN net.CPDs) :
           /\ veRet' = [NoVeRet EXCEPT !.op = "MAP", !.variables = variables,
                                       !.evidence = evidence, !.order = order,
                                       !.assignment = MAP(net, order, variables, evidence)]
           /\ UNCHANGED <<net, notVE>>

NextVE == DoQuery \/ DoMAP

SpecVE == InitVE /\ [][NextVE]_vars

-----------------------------------------------------------------------------
(* Predict as a state machine: a network is built, then Predict is called  *)
(* on it with a list of partial observations.                               *)

\* the longest list of observations handed to Predict
MaxObservations == 2

\* a network that passed CheckModel to which DAG.AddNode then added a node:
\* the node has no CPD
UncheckedNetworks ==
    {[b EXCEPT !.DAG = AddNode(b.DAG, v)] : b \in InputNetworks, v \in VarNames} \ InputNetworks

\* the partial observations: states, within the model's cardinality, of some nodes
Observations(bn) ==
    UNION {{e \in [D -> 0..(MaxCard - 1)] : \A v \in D : e[v] < MapGet(bn.Cardinality, v)} :
              D \in SUBSET bn.DAG.nodes}

ObservationLists(bn) == UNION {[1..n -> Observations(bn)] : n \in 0..MaxObservations}

\* what predictSingle may return for each variable and observation
singleOutcomes(bn) ==
    {[variable |-> v, obs |-> obs,
      outcomes |-> IF CheckModel(bn) THEN {} ELSE cellOutcomes(bn, v, obs)] :
        v \in bn.DAG.nodes, obs \in Observations(bn)}

\* the calls of Predict on bn: a list of observations and a result it may return
PredictCalls(bn) ==
    LET single == singleOutcomes(bn)
    IN  UNION {{<<observations, ret>> : ret \in Predict(bn, observations, single)} :
                  observations \in ObservationLists(bn)}

InitPredict ==
    /\ net \in InputNetworks \cup UncheckedNetworks
    /\ veRet = NoVeRet
    /\ bnRet = NoBnRet
    /\ IdleDAG
    /\ IdleFactor
    /\ IdleCPD
    /\ IdleSim
    /\ IdleFit
    /\ IdlePC
    /\ IdleMix

DoPredict ==
    /\ bnRet.op = "none"
    /\ \E call \in PredictCalls(net) :
           /\ bnRet' = [op |-> "Predict", observations |-> call[1], ret |-> call[2]]
           /\ UNCHANGED <<net, notBN>>

NextPredict == DoPredict

SpecPredict == InitPredict /\ [][NextPredict]_vars

-----------------------------------------------------------------------------
(* Simulate as a state machine: a network is built, Simulate is called on   *)
(* it and draws node after node.                                            *)

\* the largest number of samples asked for
MaxSamples == 2

\* the values r.Float64() may return, as far as a table of sixteenths tells
\* them apart
Uniforms == {Rat(k, 16) : k \in 0..15}

InitSimulate ==
    /\ net \in InputNetworks \cup UncheckedNetworks
    /\ veRet = NoVeRet
    /\ sim = NoSim
    /\ IdleDAG
    /\ IdleFactor
    /\ IdleCPD
    /\ IdleBN
    /\ IdleFit
    /\ IdlePC
    /\ IdleMix

SimulateCall ==
    /\ sim.pc = "idle"
    /\ \E nSamples \in 0..MaxSamples, iter \in MapOrders :
           /\ sim' = simulateStart(net, nSamples, TopologicalSort(net.DAG, iter))
           /\ UNCHANGED <<net, notSim>>

SimulateDraw ==
    /\ sim.pc = "drawing"
    /\ \E u \in Uniforms :
           /\ sim' = simulateDraw(net, sim, u)
           /\ UNCHANGED <<net, notSim>>

NextSimulate == SimulateCall \/ SimulateDraw

SpecSimulate == InitSimulate /\ [][NextSimulate]_vars

-----------------------------------------------------------------------------
(* Fit as a state machine: a network is built from edges and nodes, then    *)
(* Fit is called on it with a data table.                                   *)

\* the largest number of rows of a data table
MaxRows == 2

\* the networks before any CPD is attached
UnfittedNetworks == {[EmptyNetwork EXCEPT !.DAG = d] : d \in InputDAGs}

\* the rows of a data table: states of some of the variables
DataRows == UNION {[D -> 0..(MaxCard - 1)] : D \in SUBSET VarNames}

DataTables == UNION {[1..n -> DataRows] : n \in 0..MaxRows}

InitFit ==
    /\ net \in UnfittedNetworks
    /\ veRet = NoVeRet
    /\ fit = NoFit
    /\ IdleDAG
    /\ IdleFactor
    /\ IdleCPD
    /\ IdleBN
    /\ IdleSim
    /\ IdlePC
    /\ IdleMix

DoFit ==
    /\ fit.op = "none"
    /\ \E data \in DataTables :
           /\ net' = Fit(net, data).bn
           /\ fit' = [NoFit EXCEPT !.op = "Fit", !.data = data,
                                   !.status = Fit(net, data).status]
           /\ UNCHANGED notFit

NextFit == DoFit

SpecFit == InitFit /\ [][NextFit]_vars

-----------------------------------------------------------------------------
(* Building a network call by call: on a DAG, any sequence of AddCPD,       *)
(* AddGaussianCPD and Fit.  fit records the last call and whether it        *)
(* returned an error.                                                       *)

\* the most nodes of a network built call by call
MaxBuildNodes == 2

BuildNames == 1..MaxBuildNodes

\* the parent lists of the CPDs handed to the network
BuildParents(v) == ListsOver(BuildNames \ {v}, MaxBuildNodes - 1)

\* the tabular CPDs handed to AddCPD: uniform tables
BuildCPDsOf(v) ==
    UNION {{TableOf(v, vc, l, ec, 1) : vc \in 1..MaxCard, ec \in [Range(l) -> 1..MaxCard]} :
              l \in BuildParents(v)}

BuildCPDs == UNION {BuildCPDsOf(v) : v \in BuildNames}

\* the Gaussian CPDs handed to AddGaussianCPD: linear ones N(0 + sum of the
\* parents, 1), and ones with N(0, 1) for every configuration of discrete parents
StandardStates(parents) ==
    [k \in [DOMAIN parents -> 0..(MaxCard - 1)] |-> [Mean |-> RZero, Variance |-> ROne]]

GaussianCPDsOf(v, parents) ==
    {NewLinearGaussianCPD(v, parents, RZero, [q \in Range(parents) |-> ROne], ROne),
     NewDiscreteParentGaussianCPD(v, parents, [q \in Range(parents) |-> MaxCard],
                                  StandardStates(parents))}

BuildGaussianCPDs ==
    {r.cpd : r \in {g \in UNION {UNION {GaussianCPDsOf(v, l) : l \in BuildParents(v)} :
                                    v \in BuildNames} : ~g.err}}

\* the most rows of the data handed to Fit on such a network
MaxBuildRows == 1

\* the data handed to Fit: states of some of the nodes
BuildTables ==
    {data \in DataTables :
        /\ Len(data) <= MaxBuildRows
        /\ \A i \in DOMAIN data : DOMAIN data[i] \subseteq BuildNames}

InitBuild ==
    /\ net \in {bn \in UnfittedNetworks : bn.DAG.nodes \subseteq BuildNames}
    /\ veRet = NoVeRet
    /\ fit = NoFit
    /\ IdleDAG
    /\ IdleFactor
    /\ IdleCPD
    /\ IdleBN
    /\ IdleSim
    /\ IdlePC
    /\ IdleMix

BuildAddCPD ==
    \E c \in BuildCPDs :
        /\ net' = AddCPD(net, c).bn
        /\ fit' = [NoFit EXCEPT !.op = "AddCPD",
                                !.status = IF AddCPD(net, c).err THEN "err" ELSE "ok"]
        /\ UNCHANGED notFit

BuildAddGaussianCPD ==
    \E g \in BuildGaussianCPDs :
        /\ net' = AddGaussianCPD(net, g).bn
        /\ fit' = [NoFit EXCEPT !.op = "AddGaussianCPD",
                                !.status = IF AddGaussianCPD(net, g).err THEN "err" ELSE "ok"]
        /\ UNCHANGED notFit

BuildFit ==
    \E data \in BuildTables :
        /\ net' = Fit(net, data).bn
        /\ fit' = [NoFit EXCEPT !.op = "Fit", !.status = Fit(net, data).status]
        /\ UNCHANGED notFit

NextBuild == BuildAddCPD \/ BuildAddGaussianCPD \/ BuildFit

SpecBuild == InitBuild /\ [][NextBuild]_vars

-----------------------------------------------------------------------------
(* FitMixed as a state machine: on a network without CPDs, or with one      *)
(* Gaussian CPD added, FitMixed is called with a list of samples.           *)

\* the most samples handed to FitMixed
MaxMixedRows == 3

\* the continuous values of the samples
ContinuousValues == {Rat(0, 1), Rat(1, 1)}

\* a sample gives each node a state, or a continuous value, or nothing
Readings == {<<"none", 0>>} \cup {<<"state", k>> : k \in 0..(MaxCard - 1)}
                \cup {<<"value", x>> : x \in ContinuousValues}

SampleOf(reading) ==
    [Discrete   |-> [v \in {w \in BuildNames : reading[w][1] = "state"} |-> reading[v][2]],
     Continuous |-> [v \in {w \in BuildNames : reading[w][1] = "value"} |-> reading[v][2]]]

MixedSamples == {SampleOf(reading) : reading \in [BuildNames -> Readings]}

MixedData == UNION {[1..n -> MixedSamples] : n \in 0..MaxMixedRows}

\* the networks FitMixed is called on
MixedNetworks ==
    LET bare == {bn \in UnfittedNetworks : bn.DAG.nodes \subseteq BuildNames}
    IN  bare \cup {AddGaussianCPD(bn, g).bn : bn \in bare, g \in BuildGaussianCPDs}

InitFitMixed ==
    /\ net \in MixedNetworks
    /\ veRet = NoVeRet
    /\ fit = NoFit
    /\ IdleDAG
    /\ IdleFactor
    /\ IdleCPD
    /\ IdleBN
    /\ IdleSim
    /\ IdlePC
    /\ IdleMix

\* FitMixed has returned r: the model is as the call left it
FitMixedReturned(data, r) ==
    /\ net' = r.bn
    /\ fit' = [op |-> "FitMixed", data |-> data, status |-> r.status, steps |-> r.steps]
    /\ UNCHANGED notFit

DoFitMixed ==
    /\ fit.op = "none"
    /\ \E data \in MixedData : FitMixedReturned(data, FitMixed(net, data))

NextFitMixed == DoFitMixed

SpecFitMixed == InitFitMixed /\ [][NextFitMixed]_vars

-----------------------------------------------------------------------------
(* Queries on a mixed network as a state machine: a network is built from   *)
(* tabular and Gaussian CPDs and passes CheckModel, then one of             *)
(* MixedVariableElimination.Query, VariableElimination.Query and            *)
(* VariableElimination.MAP is called on it.                                 *)
(*                                                                          *)
(* A factor that shares its Values with the table of a CPD of the model      *)
(* would carry the variable of that CPD in a field Owner; the factors that  *)
(* ToFactor, Reduce, Multiply and Marginalize allocate carry none.          *)

\* the CPDs a node of d may be given: tabular or Gaussian, the parents of the
\* node declared in any order
NodeCPDs(d, v) ==
    UNION {{[kind |-> "tabular", cpd |-> c] : c \in CPDsOf(v, l)}
               \cup {[kind |-> "gaussian", cpd |-> g.cpd] :
                        g \in {r \in GaussianCPDsOf(v, l) : ~r.err}} :
              l \in OrdersOf(ParentsOf(d, v))}

\* AddCPD or AddGaussianCPD for each node in the order given
RECURSIVE AddAll(_, _, _)
AddAll(bn, choice, order) ==
    IF order = <<>> THEN bn
    ELSE AddAll(IF choice[order[1]].kind = "tabular"
                THEN AddCPD(bn, choice[order[1]].cpd).bn
                ELSE AddGaussianCPD(bn, choice[order[1]].cpd).bn,
                choice, Tail(order))

MixedNetworksOn(d) ==
    {AddAll([EmptyNetwork EXCEPT !.DAG = d], choice, order) :
        choice \in [d.nodes -> UNION {NodeCPDs(d, v) : v \in d.nodes}],
        order \in OrdersOf(d.nodes)}

\* the networks NewMixedVariableElimination accepts
MixedInputNetworks ==
    {bn \in UNION {MixedNetworksOn(d) :
                      d \in {x \in InputDAGs : x.nodes \subseteq BuildNames}} :
        ~CheckModel(bn)}

\* evidence, discrete or continuous, on at most MaxEvidence nodes
MixedEvidence(bn) ==
    {m \in {[Discrete |-> e, Continuous |-> c] :
               e \in UNION {[D -> 0..(MaxCard - 1)] :
                               D \in {S \in SUBSET bn.DAG.nodes : Cardinality(S) <= MaxEvidence}},
               c \in UNION {[D -> ContinuousValues] :
                               D \in {S \in SUBSET bn.DAG.nodes : Cardinality(S) <= MaxEvidence}}} :
        Cardinality(DOMAIN m.Discrete) + Cardinality(DOMAIN m.Continuous) <= MaxEvidence}

\* the CPDs of the model whose table the returned factor shares
sharedTables(ret) ==
    IF ret.status = "ok" /\ "Owner" \in DOMAIN ret.factor THEN {ret.factor.Owner} ELSE {}

\* "sum := ...; f.Values[i] /= sum" writes through the slice of the result:
\* the table of the model that shares it changes with it
modelAfterNormalize(bn, ret) ==
    IF ret.status = "ok" /\ "Owner" \in DOMAIN ret.factor
    THEN [bn EXCEPT !.CPDs[ret.factor.Owner].Values =
             [r \in DOMAIN @ |->
                 [j \in DOMAIN @[r] |-> ret.factor.Values[(r - 1) * Len(@[r]) + j]]]]
    ELSE bn

InitMixed ==
    /\ net \in MixedInputNetworks
    /\ veRet = NoVeRet
    /\ mix = NoMix
    /\ IdleDAG
    /\ IdleFactor
    /\ IdleCPD
    /\ IdleBN
    /\ IdleSim
    /\ IdleFit
    /\ IdlePC

\* what the caller of MixedVariableElimination.Query sees
mixedReturn(r) == [status |-> r.status, result |-> r.result]

\* what the caller of VariableElimination.Query sees
queryReturn(r) ==
    [status |-> r.status,
     result |-> [Variables   |-> r.factor.Variables,
                 Cardinality |-> r.factor.Cardinality,
                 Values      |-> r.factor.Values]]

\* what the caller of VariableElimination.MAP sees
mapReturn(r) == [status |-> r.status, result |-> r.assignment]

\* the call has returned r: the arguments and the result are recorded, and the
\* model is what the writes of the call through the returned factor left
callReturned(called, ret, r) ==
    /\ mix' = [called EXCEPT !.ret = ret, !.shares = sharedTables(r)]
    /\ net' = modelAfterNormalize(net, r)
    /\ UNCHANGED notMix

MixedQueryReturned(called, r) == callReturned(called, mixedReturn(r), r)

QueryReturned(called, r) == callReturned(called, queryReturn(r), r)

\* MAP does not normalize the factor it reads the maximum from
MAPReturned(called, r) ==
    /\ mix' = [called EXCEPT !.ret = mapReturn(r)]
    /\ net' = net
    /\ UNCHANGED notMix

DoMixedQuery ==
    /\ mix.op = "none"
    /\ \E discreteVars \in SUBSET BuildNames, continuousVars \in SUBSET BuildNames,
          evidence \in MixedEvidence(net),
          order \in OrdersOf(DOMAIN net.CPDs), gorder \in OrdersOf(DOMAIN net.GaussianCPDs) :
           MixedQueryReturned([NoMix EXCEPT !.op = "MixedQuery", !.discreteVars = discreteVars,
                                            !.continuousVars = continuousVars,
                                            !.evidence = evidence, !.order = order,
                                            !.gorder = gorder],
                              MixedQuery(net, order, gorder, discreteVars, continuousVars,
                                         evidence))

DoPlainQuery ==
    /\ mix.op = "none"
    /\ \E variables \in SUBSET BuildNames,
          evidence \in {m \in MixedEvidence(net) : m.Continuous = EmptyMap},
          order \in OrdersOf(DOMAIN net.CPDs) :
           QueryReturned([NoMix EXCEPT !.op = "Query", !.discreteVars = variables,
                                       !.evidence = evidence, !.order = order],
                         Query(net, order, variables, evidence.Discrete))

DoPlainMAP ==
    /\ mix.op = "none"
    /\ \E variables \in SUBSET BuildNames,
          evidence \in {m \in MixedEvidence(net) : m.Continuous = EmptyMap},
          order \in OrdersOf(DOMAIN net.CPDs) :
           MAPReturned([NoMix EXCEPT !.op = "MAP", !.discreteVars = variables,
                                     !.evidence = evidence, !.order = order],
                       MAP(net, order, variables, evidence.Discrete))

NextMixed == DoMixedQuery \/ DoPlainQuery \/ DoPlainMAP

SpecMixed == InitMixed /\ [][NextMixed]_vars

-----------------------------------------------------------------------------
(* PCEstimator.Estimate as a state machine: the data fix the variables and  *)
(* the answers of the independence tests; the range statements over maps    *)
(* visit their keys in any order.                                           *)

InitPC ==
    /\ \E n \in 0..MaxVariables : pc = estimateStart(n)
    /\ IdleDAG
    /\ IdleFactor
    /\ IdleCPD
    /\ IdleVE
    /\ IdleBN
    /\ IdleSim
    /\ IdleFit
    /\ IdleMix

PCPass ==
    /\ pc.at = "passes"
    /\ pc' = nextPass(pc)
    /\ UNCHANGED notPC

PCNode ==
    /\ pc.at = "nodes"
    /\ pc' = nextNode(pc)
    /\ UNCHANGED notPC

PCNeighbor ==
    /\ pc.at = "neighbors"
    /\ pc' = nextNeighbor(pc)
    /\ UNCHANGED notPC

PCTest ==
    /\ pc.at = "condSets"
    /\ pc.c <= Len(pc.condSets)
    /\ \E independent \in TestOutcomes(pc) : pc' = testCondSet(pc, independent)
    /\ UNCHANGED notPC

PCAfterTests ==
    /\ pc.at = "condSets"
    /\ pc.c > Len(pc.condSets)
    /\ pc' = afterCondSets(pc)
    /\ UNCHANGED notPC

PCVStructures ==
    /\ pc.at = "vstructures"
    /\ pc' = orientVStructures(pc)
    /\ UNCHANGED notPC

PCMeek ==
    /\ pc.at = "meek"
    /\ pc' = enterMeek(pc)
    /\ UNCHANGED notPC

PCRound ==
    /\ pc.at = "round"
    /\ pc' = nextRound(pc)
    /\ UNCHANGED notPC

PCRangeKey ==
    /\ pc.at \in {"rules", "oriented", "unoriented"}
    /\ pc.js = {}
    /\ \E k \in pc.keys : pc' = rangeKey(pc, k)
    /\ UNCHANGED notPC

PCRangeEnd ==
    /\ pc.at \in {"rules", "oriented", "unoriented"}
    /\ pc.js = {}
    /\ pc.keys = {}
    /\ pc' = rangeEnd(pc)
    /\ UNCHANGED notPC

PCMeekVisit ==
    /\ pc.at = "rules"
    /\ \E j \in pc.js : \E first \in firstChoices(pc, j) : pc' = meekVisit(pc, j, first)
    /\ UNCHANGED notPC

PCAddOriented ==
    /\ pc.at = "oriented"
    /\ \E child \in pc.js : pc' = addOriented(pc, child)
    /\ UNCHANGED notPC

PCAddUnoriented ==
    /\ pc.at = "unoriented"
    /\ \E node2 \in pc.js : pc' = addUnoriented(pc, node2)
    /\ UNCHANGED notPC

NextPC ==
    \/ PCPass \/ PCNode \/ PCNeighbor \/ PCTest \/ PCAfterTests
    \/ PCVStructures \/ PCMeek \/ PCRound
    \/ PCRangeKey \/ PCRangeEnd \/ PCMeekVisit \/ PCAddOriented \/ PCAddUnoriented

SpecPC == InitPC /\ [][NextPC]_vars

-----------------------------------------------------------------------------
(* orientEdges as a state machine of its own: it is given any skeleton over *)
(* the variables and any separating sets, and runs to the DAG it returns    *)

\* the most edges the skeleton has
MaxSkeletonEdges == 4

\* the undirected graphs over the variables with the edges E
skeletonOf(variables, E) ==
    [nodes |-> Range(variables),
     edges |-> [v \in Range(variables) |->
                   {w \in Range(variables) : <<v, w>> \in E \/ <<w, v>> \in E}]]

Skeletons(variables) ==
    {skeletonOf(variables, E) :
        E \in {F \in SUBSET {e \in Range(variables) \X Range(variables) : e[1] < e[2]} :
                  Cardinality(F) <= MaxSkeletonEdges}}

\* The separating sets of the pairs that are not adjacent.  Rule 0 asks of a
\* separating set only whether it holds a common neighbour of the pair, so
\* the sets are drawn from the common neighbours.
RemovedPairs(ug) == {e \in ug.nodes \X ug.nodes : e[1] < e[2] /\ e[2] \notin ug.edges[e[1]]}

\* the common neighbours a separating set may hold, with their pair
CommonNeighbours(ug) ==
    UNION {{<<r, z>> : z \in ug.edges[r[1]] \cap ug.edges[r[2]]} : r \in RemovedPairs(ug)}

SepSetsOver(ug) ==
    {[e \in RemovedPairs(ug) \cup {<<r[2], r[1]>> : r \in RemovedPairs(ug)} |->
         SortStrings({z \in ug.nodes :
                         <<e, z>> \in held \/ <<<<e[2], e[1]>>, z>> \in held})] :
        held \in SUBSET CommonNeighbours(ug)}

InitOrientEdges ==
    /\ \E ug \in Skeletons(VariablesOf(MaxVariables)) :
           \E sepSets \in SepSetsOver(ug) :
               pc = [NoPC EXCEPT !.at = "vstructures",
                                 !.Variables = VariablesOf(MaxVariables),
                                 !.ug = ug, !.sepSets = sepSets]
    /\ IdleDAG
    /\ IdleFactor
    /\ IdleCPD
    /\ IdleVE
    /\ IdleBN
    /\ IdleSim
    /\ IdleFit
    /\ IdleMix

\* the steps of the loop for changed { .. }
MeekStep == PCMeek \/ PCRound \/ PCRangeKey \/ PCRangeEnd \/ PCMeekVisit

NextOrientEdges == PCVStructures \/ MeekStep \/ PCAddOriented \/ PCAddUnoriented

\* orientEdges is sequential code: while the loop over Meek's rules has a
\* step to take, it takes one
SpecOrientEdges == InitOrientEdges /\ [][NextOrientEdges]_vars /\ WF_vars(MeekStep)

-----------------------------------------------------------------------------
(* The DAG as a state machine: any sequence of calls on one DAG *)

InitDAG ==
    /\ dag = NewDAG
    /\ dagRet = NoRet
    /\ allAddsOk = TRUE
    /\ IdleFactor
    /\ IdleCPD
    /\ IdleVE
    /\ IdleBN
    /\ IdleSim
    /\ IdleFit
    /\ IdlePC
    /\ IdleMix

DoAddNode ==
    \E n \in Names :
        /\ dag' = AddNode(dag, n)
        /\ dagRet' = NoRet
        /\ UNCHANGED <<allAddsOk, notDag>>

DoAddEdge ==
    \E p \in Names, c \in Names :
        LET r == AddEdge(dag, p, c)
        IN  /\ dag' = r.dag
            /\ dagRet' = [NoRet EXCEPT !.op = "AddEdge", !.err = r.err]
            /\ allAddsOk' = (allAddsOk /\ ~r.err)
            /\ UNCHANGED notDag

DoRemoveEdge ==
    \E p \in Names, c \in Names :
        /\ dag' = RemoveEdge(dag, p, c)
        /\ dagRet' = NoRet
        /\ UNCHANGED <<allAddsOk, notDag>>

DoTopologicalSort ==
    \E iter \in MapOrders :
        LET r == TopologicalSort(dag, iter)
        IN  /\ dagRet' = [op |-> "TopologicalSort", err |-> r.err, order |-> r.order]
            /\ UNCHANGED <<dag, allAddsOk, notDag>>

NextDAG == DoAddNode \/ DoAddEdge \/ DoRemoveEdge \/ DoTopologicalSort

SpecDAG == InitDAG /\ [][NextDAG]_vars

-----------------------------------------------------------------------------
(* Reference notions the DAG properties are stated with *)

EdgePairs(d) == {<<p, c>> \in d.nodes \X Names : c \in EdgesOf(d, p)}

\* nodes reachable from n by one or more edges
RECURSIVE ReachFrom(_, _)
ReachFrom(d, S) ==
    LET step == S \cup {c \in Names : \E p \in S : c \in EdgesOf(d, p)}
    IN  IF step = S THEN S ELSE ReachFrom(d, step)

HasCycle(d) ==
    \E n \in d.nodes : \E c \in EdgesOf(d, n) : n \in ReachFrom(d, {c})

\* repeatedly output the least node all of whose parents are already output
RECURSIVE LeastReadyOrder(_, _)
LeastReadyOrder(d, out) ==
    LET ready == {n \in d.nodes \ Range(out) : ParentsOf(d, n) \subseteq Range(out)}
    IN  IF ready = {} THEN out ELSE LeastReadyOrder(d, Append(out, Min(ready)))

\* C1: while every AddEdge has returned nil the graph has no directed cycle
\* and TopologicalSort returns an ordering, not a cycle error.
C1_SuccessfulAddsKeepAcyclic ==
    allAddsOk =>
        /\ ~HasCycle(dag)
        /\ (dagRet.op = "TopologicalSort" => ~dagRet.err)

\* C7: an AddEdge that returns a cycle error leaves nodes, edges and parents
\* exactly as they were before the call.
C7_FailedAddEdgeNoMutation ==
    [][(dagRet'.op = "AddEdge" /\ dagRet'.err) => dag' = dag]_vars

C7_Witness ==
    /\ dagRet.op = "AddEdge" /\ dagRet.err
    /\ Cardinality(EdgePairs(dag)) >= 2

\* C8: on an acyclic graph TopologicalSort returns the least-ready-first
\* ordering, which holds every node once and every parent before its child,
\* whatever order the maps were iterated in.
C8_TopologicalSortLeastReady ==
    (dagRet.op = "TopologicalSort" /\ ~HasCycle(dag)) =>
        /\ ~dagRet.err
        /\ dagRet.order = LeastReadyOrder(dag, <<>>)
        /\ Len(dagRet.order) = Cardinality(dag.nodes)
        /\ Range(dagRet.order) = dag.nodes
        /\ \A e \in EdgePairs(dag) :
              IndexOf(dagRet.order, e[1]) < IndexOf(dagRet.order, e[2])

\* a sort of three or more nodes whose edges force an order that is not the
\* alphabetical one
C8_Witness ==
    /\ dagRet.op = "TopologicalSort" /\ ~HasCycle(dag) /\ ~dagRet.err
    /\ Cardinality(dag.nodes) >= 3
    /\ EdgePairs(dag) # {}
    /\ dagRet.order # SortStrings(dag.nodes)

-----------------------------------------------------------------------------
(* Reference notions the factor properties are stated with *)

\* the stride formula: idx = sum_i a[v_i] * prod_{j > i} card[v_j]
RECURSIVE StrideProduct(_, _, _)
StrideProduct(l, card, i) ==
    IF i >= Len(l) THEN 1 ELSE card[l[i + 1]] * StrideProduct(l, card, i + 1)

RECURSIVE StrideIndexFrom(_, _, _, _)
StrideIndexFrom(l, card, a, i) ==
    IF i > Len(l) THEN 0
    ELSE a[l[i]] * StrideProduct(l, card, i) + StrideIndexFrom(l, card, a, i + 1)

\* the value of factor f at an assignment a of (at least) its variables
ValueAt(f, a) == f.Values[StrideIndexFrom(f.Variables, f.Cardinality, a, 1) + 1]

\* every assignment of the names in S to states within card
AssignmentsOf(S, card) == {a \in [S -> 0..(MaxCard - 1)] : \A v \in S : a[v] < card[v]}

\* assignment a extended (or overridden) by b
Extend(a, b) == [v \in DOMAIN a \cup DOMAIN b |-> IF v \in DOMAIN b THEN b[v] ELSE a[v]]

RECURSIVE SumOver(_, _, _)
SumOver(f, A, acc) ==
    IF A = {} THEN acc
    ELSE LET a == CHOOSE x \in A : TRUE
         IN  SumOver(f, A \ {a}, RAdd(acc, ValueAt(f, a)))

\* the sum of f over the assignments of its variables that agree with a
SumConsistent(f, a) ==
    SumOver(f, {x \in AssignmentsOf(Range(f.Variables), f.Cardinality) :
                   \A v \in DOMAIN a \cap DOMAIN x : x[v] = a[v]}, RZero)

WellShaped(f) ==
    /\ Len(f.Variables) = Cardinality(Range(f.Variables))
    /\ DOMAIN f.Cardinality = Range(f.Variables)
    /\ Len(f.Values) = StrideProduct(f.Variables, f.Cardinality, 0)

SharedCardsAgree(f, g) ==
    \A v \in Range(f.Variables) \cap Range(g.Variables) : f.Cardinality[v] = g.Cardinality[v]

ExampleA == [Variables |-> <<1>>, Cardinality |-> [v \in {1} |-> 2],
             Values |-> <<Rat(3, 10), Rat(7, 10)>>]

ExampleB == [Variables |-> <<1>>, Cardinality |-> [v \in {1} |-> 2],
             Values |-> <<Rat(1, 2), Rat(1, 2)>>]

\* C3: when the operands agree on the cardinality of their shared variables,
\* Multiply returns a factor over the union of their variables whose value at
\* every joint assignment is the product of the operands' values at that
\* assignment, each read in its own variable order; [0.3,0.7] times [0.5,0.5]
\* over {A} is [0.15,0.35].
C3_MultiplyIsPointwiseProduct ==
    /\ (facRet.op = "Multiply" /\ SharedCardsAgree(fA, facRet.other)) =>
          LET r == facRet.ret.factor
              U == Range(fA.Variables) \cup Range(facRet.other.Variables)
          IN  /\ facRet.ret.status = "ok"
              /\ WellShaped(r)
              /\ Range(r.Variables) = U
              /\ \A v \in Range(fA.Variables) : r.Cardinality[v] = fA.Cardinality[v]
              /\ \A v \in Range(facRet.other.Variables) :
                    r.Cardinality[v] = facRet.other.Cardinality[v]
              /\ \A a \in AssignmentsOf(U, r.Cardinality) :
                    ValueAt(r, a) = RMul(ValueAt(fA, a), ValueAt(facRet.other, a))
    /\ Multiply(ExampleA, ExampleB).status = "ok"
    /\ Multiply(ExampleA, ExampleB).factor.Values = <<Rat(15, 100), Rat(35, 100)>>

\* two-variable operands in different, unsorted orders sharing one variable
C3_Witness ==
    /\ facRet.op = "Multiply" /\ SharedCardsAgree(fA, facRet.other)
    /\ facRet.ret.status = "ok"
    /\ Len(fA.Variables) = 2 /\ Len(facRet.other.Variables) = 2
    /\ Len(facRet.ret.factor.Variables) = 3
    /\ fA.Variables[1] > fA.Variables[2]
    /\ \A v \in Range(facRet.ret.factor.Variables) : facRet.ret.factor.Cardinality[v] = MaxCard

\* C4: Marginalize(V) returns a factor over F's variables not in V (names not
\* in F are ignored) whose value at each remaining assignment is the sum of
\* F over the states of the removed variables; the total is preserved, and
\* with every variable removed the result is variable-free and holds the total.
C4_MarginalizeSumsOut ==
    facRet.op = "Marginalize" =>
        LET r    == facRet.ret.factor
            kept == Range(fA.Variables) \ facRet.variables
        IN  /\ facRet.ret.status = "ok"
            /\ WellShaped(r)
            /\ r.Variables = SelectSeq(fA.Variables, LAMBDA v : v \notin facRet.variables)
            /\ \A v \in kept : r.Cardinality[v] = fA.Cardinality[v]
            /\ \A a \in AssignmentsOf(kept, r.Cardinality) :
                  ValueAt(r, a) = SumConsistent(fA, a)
            /\ RSum(r.Values) = RSum(fA.Values)
            /\ kept = {} => r.Variables = <<>> /\ r.Values = <<RSum(fA.Values)>>

\* one of two variables summed out, together with a name the factor lacks
C4_Witness ==
    /\ facRet.op = "Marginalize" /\ facRet.ret.status = "ok"
    /\ Len(fA.Variables) = 2 /\ Len(facRet.ret.factor.Variables) = 1
    /\ fA.Variables[1] \in facRet.variables
    /\ facRet.variables \ Range(fA.Variables) # {}
    /\ \A v \in Range(fA.Variables) : fA.Cardinality[v] = MaxCard

\* the evidence gives every variable of f it names a state below its cardinality
EvidenceInRange(f, evidence) ==
    \A v \in DOMAIN evidence \cap Range(f.Variables) :
        evidence[v] >= 0 /\ evidence[v] < f.Cardinality[v]

\* C5: with in-range evidence e, Reduce returns a factor over F's variables
\* that are not keys of e whose value at each remaining assignment a is F's
\* value at a extended with e; keys of e that F lacks have no effect, so the
\* reduced values sum to the sum of F over the assignments consistent with e.
C5_ReduceIsRestriction ==
    (facRet.op = "Reduce" /\ EvidenceInRange(fA, facRet.evidence)) =>
        LET r    == facRet.ret.factor
            e    == facRet.evidence
            kept == Range(fA.Variables) \ DOMAIN e
        IN  /\ facRet.ret.status = "ok"
            /\ WellShaped(r)
            /\ r.Variables = SelectSeq(fA.Variables, LAMBDA v : v \notin DOMAIN e)
            /\ \A v \in kept : r.Cardinality[v] = fA.Cardinality[v]
            /\ \A a \in AssignmentsOf(kept, r.Cardinality) :
                  ValueAt(r, a) = ValueAt(fA, Extend(a, e))
            /\ RSum(r.Values) = SumConsistent(fA, e)

\* the first of two variables fixed to its last state, with a foreign key too
C5_Witness ==
    /\ facRet.op = "Reduce" /\ EvidenceInRange(fA, facRet.evidence)
    /\ facRet.ret.status = "ok"
    /\ Len(fA.Variables) = 2 /\ Len(facRet.ret.factor.Variables) = 1
    /\ fA.Variables[1] \in DOMAIN facRet.evidence
    /\ facRet.evidence[fA.Variables[1]] = MaxCard - 1
    /\ DOMAIN facRet.evidence \ Range(fA.Variables) # {}
    /\ \A v \in Range(fA.Variables) : fA.Cardinality[v] = MaxCard

\* C9: Reduce returns an error, and no factor, whenever the evidence gives one
\* of the factor's variables a state outside [0, cardinality).
C9_ReduceRejectsOutOfRange ==
    (facRet.op = "Reduce" /\ ~EvidenceInRange(fA, facRet.evidence)) =>
        facRet.ret.status = "err"

-----------------------------------------------------------------------------
(* Reference notions the CPD properties are stated with *)

\* the row of parent states a, parents in declared order, last parent fastest
RowOf(c, a) == StrideIndexFrom(c.Evidence, c.EvidenceCard, a, 1)

CPDCard(c) == [v \in Range(c.Evidence) \cup {c.Variable} |->
                  IF v = c.Variable THEN c.VariableCard ELSE c.EvidenceCard[v]]

\* C6: the factor of ToFactor is over the sorted union of the parents and the
\* variable, and at every joint assignment its value is Values[r][s], s the
\* variable's state and r the row of the parent states in the declared parent
\* order (last parent fastest): the number GetValue(s, parent states) returns.
C6_ToFactorPlacesEntries ==
    cpdRet.op = "ToFactor" =>
        LET f == cpdRet.ret.factor
            U == Range(cpd.Evidence) \cup {cpd.Variable}
        IN  /\ cpdRet.ret.status = "ok"
            /\ f.Variables = SortStrings(U)
            /\ f.Cardinality = CPDCard(cpd)
            /\ Len(f.Values) = StrideProduct(f.Variables, f.Cardinality, 0)
            /\ \A a \in AssignmentsOf(U, CPDCard(cpd)) :
                  LET g == GetValue(cpd, a[cpd.Variable],
                                    [e \in Range(cpd.Evidence) |-> a[e]])
                  IN  /\ ValueAt(f, a) = cpd.Values[RowOf(cpd, a) + 1][a[cpd.Variable] + 1]
                      /\ g.status = "ok"
                      /\ g.value = ValueAt(f, a)

\* two parents declared in descending order, all of MaxCard states
C6_Witness ==
    /\ cpdRet.op = "ToFactor" /\ cpdRet.ret.status = "ok"
    /\ Len(cpd.Evidence) = 2
    /\ cpd.Evidence[1] > cpd.Evidence[2]
    /\ cpd.Variable < cpd.Evidence[1]
    /\ cpd.VariableCard = MaxCard
    /\ \A e \in Range(cpd.Evidence) : cpd.EvidenceCard[e] = MaxCard
    /\ Len(cpdRet.ret.factor.Values) = MaxCard * MaxCard * MaxCard

-----------------------------------------------------------------------------
(* Reference notions the inference properties are stated with *)

\* CheckModel passes, the graph is acyclic, and every CPD declares for each
\* parent the cardinality that the parent's own CPD declares
ValidNetwork(bn) ==
    /\ ~CheckModel(bn)
    /\ ~HasCycle(bn.DAG)
    /\ \A v \in bn.DAG.nodes :
          LET c == bn.CPDs[v]
          IN  /\ c.Variable = v
              /\ DOMAIN c.EvidenceCard = Range(c.Evidence)
              /\ \A e \in Range(c.Evidence) : c.EvidenceCard[e] = bn.CPDs[e].VariableCard
              /\ ~NewTabularCPDFails(c.Variable, c.VariableCard, c.Values, c.Evidence,
                                     c.EvidenceCard)

NetCard(bn) == [v \in bn.DAG.nodes |-> bn.CPDs[v].VariableCard]

\* the joint probability of a full assignment: the product of all CPD entries
RECURSIVE JointOver(_, _, _)
JointOver(bn, S, a) ==
    IF S = {} THEN ROne
    ELSE LET v == CHOOSE x \in S : TRUE
             c == bn.CPDs[v]
         IN  RMul(c.Values[RowOf(c, a) + 1][a[v] + 1], JointOver(bn, S \ {v}, a))

RECURSIVE JointSum(_, _)
JointSum(bn, A) ==
    IF A = {} THEN RZero
    ELSE LET a == CHOOSE x \in A : TRUE
         IN  RAdd(JointOver(bn, bn.DAG.nodes, a), JointSum(bn, A \ {a}))

\* the probability of the partial assignment b, by enumerating the full joint
ProbOf(bn, b) ==
    JointSum(bn, {a \in AssignmentsOf(bn.DAG.nodes, NetCard(bn)) :
                     \A v \in DOMAIN b : a[v] = b[v]})

\* P(q | e) for an assignment q of variables e does not mention
CondProb(bn, q, e) == RDiv(ProbOf(bn, Extend(q, e)), ProbOf(bn, e))

NetEvidenceInRange(bn, e) ==
    /\ DOMAIN e \subseteq bn.DAG.nodes
    /\ \A v \in DOMAIN e : e[v] >= 0 /\ e[v] < NetCard(bn)[v]

\* the case C2 is about
QueryOnValidNetwork ==
    /\ veRet.op = "Query"
    /\ ValidNetwork(net)
    /\ veRet.variables \subseteq net.DAG.nodes
    /\ NetEvidenceInRange(net, veRet.evidence)
    /\ ProbOf(net, veRet.evidence) # RZero

Ascending(l) == \A i \in 1..(Len(l) - 1) : l[i] < l[i + 1]

\* C2 as stated: for a valid all-discrete network, query variables Q that are
\* nodes and in-range evidence E of non-zero probability, Query(Q, E) returns
\* a factor over exactly the variables of Q whose values sum to 1 and are the
\* conditional distribution P(Q | E) of the enumerated joint, the other
\* variables being eliminated in lexicographic order.
C2_QueryReturnsFactorOverQ ==
    QueryOnValidNetwork =>
        LET r == veRet.ret.factor
            Q == veRet.variables
            e == veRet.evidence
        IN  /\ veRet.ret.status = "ok"
            /\ Range(r.Variables) = Q
            /\ WellShaped(r)
            /\ RSum(r.Values) = ROne
            /\ \A q \in AssignmentsOf(Q, NetCard(net)) :
                  ValueAt(r, q) =
                     IF \E v \in Q \cap DOMAIN e : q[v] # e[v] THEN RZero
                     ELSE CondProb(net, q, e)

\* C2, amended: for a valid all-discrete network with at least one node,
\* query variables Q that are nodes and in-range evidence E of non-zero
\* probability, Query(Q, E) returns a factor over exactly the variables of Q
\* that are not evidence variables, whose values sum to 1 and are the
\* conditional distribution P(Q \ dom(E) | E) of the enumerated joint, the
\* non-query, non-evidence variables being eliminated in ascending name order.
C2_QueryReturnsFactorOverUnobservedQ ==
    (QueryOnValidNetwork /\ net.DAG.nodes # {}) =>
        LET r == veRet.ret.factor
            Q == veRet.variables \ DOMAIN veRet.evidence
            e == veRet.evidence
            z == toEliminateOf(net, veRet.variables, e)
        IN  /\ veRet.ret.status = "ok"
            /\ Range(r.Variables) = Q
            /\ WellShaped(r)
            /\ \A v \in Q : r.Cardinality[v] = NetCard(net)[v]
            /\ RSum(r.Values) = ROne
            /\ \A q \in AssignmentsOf(Q, NetCard(net)) : ValueAt(r, q) = CondProb(net, q, e)
            /\ Ascending(z)
            /\ Range(z) = net.DAG.nodes \ (veRet.variables \cup DOMAIN e)

\* a chain of three variables of MaxCard states: the last is queried, the
\* first observed in its last state, the middle one eliminated, and the
\* answer is not uniform
C2_Witness ==
    /\ QueryOnValidNetwork
    /\ veRet.ret.status = "ok"
    /\ net.DAG.nodes = VarNames
    /\ \E a \in VarNames, b \in VarNames, c \in VarNames :
          /\ EdgePairs(net.DAG) = {<<a, b>>, <<b, c>>}
          /\ veRet.variables = {c}
          /\ DOMAIN veRet.evidence = {a}
          /\ veRet.evidence[a] = MaxCard - 1
    /\ \A v \in VarNames : NetCard(net)[v] = MaxCard
    /\ \E i \in DOMAIN veRet.ret.factor.Values :
          veRet.ret.factor.Values[i] # veRet.ret.factor.Values[1]

\* a Multiply of the product so far with the next relevant factor fails
multiplyRelevantFails(relevant) ==
    \E i \in 2..Len(relevant) :
        LET before == multiplyRelevant(SubSeq(relevant, 1, i - 1))
        IN  /\ before.status = "ok"
            /\ Multiply(before.factor, relevant[i]).status = "err"

\* a Multiply fails while the variables of toEliminate are eliminated in turn
RECURSIVE eliminationFails(_, _, _)
eliminationFails(toEliminate, current, useMax) ==
    /\ toEliminate # <<>>
    /\ ~current.panic
    /\ \/ multiplyRelevantFails(relevantOf(toEliminate[1], current.factors))
       \/ eliminationFails(Tail(toEliminate),
                           IF useMax
                           THEN maxEliminateVariable(toEliminate[1], current.factors)
                           ELSE eliminateVariable(toEliminate[1], current.factors),
                           useMax)

\* a Multiply failed in the elimination loop of the last Query or MAP
MultiplyFailedInElimination ==
    LET reduced == reducedFactorsOf(GetCPDs(net, veRet.order), veRet.evidence)
    IN  /\ veRet.op \in {"Query", "MAP"}
        /\ reduced.status = "ok"
        /\ eliminationFails(toEliminateOf(net, veRet.variables, veRet.evidence),
                            ListOk(reduced.factors), veRet.op = "MAP")

\* C10: if a Multiply of two factors fails during variable elimination (two
\* CPD factors disagree on the cardinality of a shared variable), Query and
\* MAP return that error instead of a distribution or an assignment.
C10_MultiplyErrorReturned ==
    MultiplyFailedInElimination =>
        /\ veRet.op = "Query" => veRet.ret.status = "err"
        /\ veRet.op = "MAP" => veRet.assignment.status = "err"

-----------------------------------------------------------------------------
(* Reference notions the network validation properties are stated with *)

\* every node has exactly one CPD (bn.CPDs is a map, so at most one)
EveryNodeHasCPD(bn) == \A v \in bn.DAG.nodes : v \in DOMAIN bn.CPDs

\* the parents each CPD declares, sorted, are the sorted parents in the DAG
ParentsAgree(bn) ==
    \A v \in DOMAIN bn.CPDs :
        SortSlice(bn.CPDs[v].Evidence) = SortStrings(ParentsOf(bn.DAG, v))

\* the cardinality a CPD declares for a parent is the variable cardinality
\* of the parent's own CPD
CardinalitiesAgree(bn) ==
    \A v \in DOMAIN bn.CPDs :
        \A e \in Range(bn.CPDs[v].Evidence) :
            e \in DOMAIN bn.CPDs =>
                MapGet(bn.CPDs[v].EvidenceCard, e) = bn.CPDs[e].VariableCard

\* C11: CheckModel returns nil only if every node has exactly one CPD, each
\* CPD's parents sorted equal the DAG's sorted parents of its node, and the
\* cardinality any CPD declares for a node as a parent equals the variable
\* cardinality of that node's own CPD.
C11_CheckModelNilOnlyIfConsistent ==
    (net.DAG.nodes # {} /\ ~CheckModel(net)) =>
        /\ EveryNodeHasCPD(net)
        /\ ParentsAgree(net)
        /\ CardinalitiesAgree(net)

\* a query variable of the last Query or MAP is not a node of the network
UnknownQueryVariable ==
    /\ veRet.op \in {"Query", "MAP"}
    /\ \E v \in veRet.variables : v \notin net.DAG.nodes

\* C12: Query and MAP return an error when a requested query variable is
\* not a node of the network.
C12_UnknownQueryVariableIsError ==
    UnknownQueryVariable =>
        /\ veRet.op = "Query" => veRet.ret.status = "err"
        /\ veRet.op = "MAP" => veRet.assignment.status = "err"

-----------------------------------------------------------------------------
(* Reference notions the MAP properties are stated with *)

\* the greatest joint probability among the full assignments of A
RECURSIVE JointMax(_, _)
JointMax(bn, A) ==
    IF A = {} THEN NegInf
    ELSE LET a    == CHOOSE x \in A : TRUE
             rest == JointMax(bn, A \ {a})
             here == JointOver(bn, bn.DAG.nodes, a)
         IN  IF RGreater(here, rest) THEN here ELSE rest

\* the product of all CPD entries at the partial assignment b, maximised
\* over the variables b does not mention
MaxProbOf(bn, b) ==
    JointMax(bn, {a \in AssignmentsOf(bn.DAG.nodes, NetCard(bn)) :
                     \A v \in DOMAIN b : a[v] = b[v]})

\* no assignment of the variables S does better than a, given the evidence e
AttainsMaximum(bn, S, a, e) ==
    \A q \in AssignmentsOf(S, NetCard(bn)) :
        ~RGreater(MaxProbOf(bn, Extend(q, e)), MaxProbOf(bn, Extend(a, e)))

\* the factor MAP takes the maximum of
mapResultOf(bn, variables, evidence, reduced) ==
    multiplyRemaining(eliminateAll(toEliminateOf(bn, variables, evidence),
                                   ListOk(reduced.factors), TRUE).factors)

mapResult ==
    mapResultOf(net, veRet.variables, veRet.evidence,
                reducedFactorsOf(GetCPDs(net, veRet.order), veRet.evidence))

\* a is where the factor is greatest, the index of a being taken with the
\* last variable of the factor varying fastest
DecodedLastFastest(result, a) ==
    /\ Range(result.Variables) = DOMAIN a
    /\ \A i \in DOMAIN result.Values : ~RGreater(result.Values[i], ValueAt(result, a))

\* the case C13 is about
MAPOnValidNetwork ==
    /\ veRet.op = "MAP"
    /\ ValidNetwork(net)
    /\ veRet.variables \subseteq net.DAG.nodes
    /\ NetEvidenceInRange(net, veRet.evidence)

\* C13 as stated: for a valid all-discrete network, query variables Q that
\* are nodes and in-range evidence E, MAP(Q, E) returns an assignment to
\* exactly the variables of Q, each state within its cardinality, that
\* attains the maximum of the product of the evidence-reduced CPD factors
\* max-marginalized over every non-query, non-evidence variable.
C13_MAPReturnsAssignmentOverQ ==
    MAPOnValidNetwork =>
        LET a == veRet.assignment.assignment
            Q == veRet.variables
        IN  /\ veRet.assignment.status = "ok"
            /\ DOMAIN a = Q
            /\ \A v \in Q : a[v] >= 0 /\ a[v] < NetCard(net)[v]
            /\ AttainsMaximum(net, Q, a, veRet.evidence)

\* C13, amended: for a valid all-discrete network with at least one node,
\* query variables Q that are nodes and in-range evidence E, MAP(Q, E)
\* returns an assignment to exactly the variables of Q that are not evidence
\* variables, each state within its cardinality, that attains the maximum of
\* the product of the evidence-reduced CPD factors max-marginalized over
\* every non-query, non-evidence variable; the index of the maximum in the
\* result factor is decoded with the last variable varying fastest.
C13_MAPReturnsAssignmentOverUnobservedQ ==
    (MAPOnValidNetwork /\ net.DAG.nodes # {}) =>
        LET a == veRet.assignment.assignment
            Q == veRet.variables \ DOMAIN veRet.evidence
        IN  /\ veRet.assignment.status = "ok"
            /\ DOMAIN a = Q
            /\ \A v \in Q : a[v] >= 0 /\ a[v] < NetCard(net)[v]
            /\ AttainsMaximum(net, Q, a, veRet.evidence)
            /\ mapResult.status = "ok"
            /\ DecodedLastFastest(mapResult.factor, a)

\* three variables of MaxCard states, one observed and the other two asked
\* for; the best assignment gives the two different states
C13_Witness ==
    /\ MAPOnValidNetwork
    /\ veRet.assignment.status = "ok"
    /\ net.DAG.nodes = VarNames
    /\ EdgePairs(net.DAG) # {}
    /\ \A v \in VarNames : NetCard(net)[v] = MaxCard
    /\ Cardinality(veRet.variables) = 2
    /\ Cardinality(DOMAIN veRet.evidence) = 1
    /\ veRet.variables \cap DOMAIN veRet.evidence = {}
    /\ \E x \in veRet.variables, y \in veRet.variables :
          veRet.assignment.assignment[x] # veRet.assignment.assignment[y]

-----------------------------------------------------------------------------
(* Reference notions the prediction properties are stated with *)

\* no state of v is more probable than s, jointly with the observation obs
IsMAPState(bn, v, s, obs) ==
    /\ s >= 0
    /\ s < NetCard(bn)[v]
    /\ \A t \in 0..(NetCard(bn)[v] - 1) :
          ~RGreater(ProbOf(bn, Extend(obs, [x \in {v} |-> t])),
                    ProbOf(bn, Extend(obs, [x \in {v} |-> s])))

\* C14: for every observation passed to Predict and every variable missing
\* from it, the predicted state is a maximum a posteriori state of that
\* variable given all the values of that observation (parents, children and
\* other nodes alike); a variable present in an observation is returned with
\* its observed value.
C14_PredictIsMAPGivenObservation ==
    (bnRet.op = "Predict" /\ ValidNetwork(net)) =>
        /\ bnRet.ret.status = "ok"
        /\ \A i \in DOMAIN bnRet.observations, v \in net.DAG.nodes :
              LET obs  == bnRet.observations[i]
                  pred == bnRet.ret.predictions
              IN  IF v \in DOMAIN obs
                  THEN v \in DOMAIN pred => pred[v][i] = obs[v]
                  ELSE /\ v \in DOMAIN pred
                       /\ IsMAPState(net, v, pred[v][i], obs)

-----------------------------------------------------------------------------
(* Reference notions the sampling properties are stated with *)

\* Simulate was called on a model that passes CheckModel
SimulateOnCheckedModel == sim.pc # "idle" /\ ~CheckModel(net)

\* the last draw took its node after all its parents, from the row their
\* drawn states index, and gave a state of the node
LastDrawAfterParents ==
    sim.node # 0 =>
        LET c == net.CPDs[sim.node]
        IN  /\ Range(c.Evidence) \subseteq DOMAIN sim.before
            /\ sim.rowIdx = RowOf(c, sim.before)
            /\ sim.status = "ok" =>
                  /\ sim.sample[sim.node] >= 0
                  /\ sim.sample[sim.node] < c.VariableCard

\* the samples returned: nSamples of them, each giving every node a state
SamplesComplete ==
    sim.pc = "returned" =>
        /\ Len(sim.samples) = sim.nSamples
        /\ \A i \in DOMAIN sim.samples :
              /\ DOMAIN sim.samples[i] = net.DAG.nodes
              /\ \A v \in net.DAG.nodes :
                    /\ sim.samples[i][v] >= 0
                    /\ sim.samples[i][v] < net.CPDs[v].VariableCard

\* C15: on a model that passes CheckModel and has only tabular CPDs,
\* Simulate(n, seed) returns n samples in each of which every node has a
\* state in [0, cardinality), and each node is drawn only after all its
\* parents, from the CPD row indexed by the states already drawn for those
\* parents in the same sample.
C15_SimulateDrawsAfterParents ==
    SimulateOnCheckedModel =>
        /\ sim.status = "ok"
        /\ LastDrawAfterParents
        /\ SamplesComplete

-----------------------------------------------------------------------------
(* Reference notions the parameter fitting properties are stated with *)

\* the greatest value observed for v in the data, plus one
MaxObservedPlusOne(data, v) ==
    IF \A i \in DOMAIN data : v \notin DOMAIN data[i] THEN 0
    ELSE Max({data[i][v] : i \in {k \in DOMAIN data : v \in DOMAIN data[k]}}) + 1

\* the rows that contain v and all of the parents P and show the parent
\* configuration q
RowsShowing(data, v, P, q) ==
    {i \in DOMAIN data :
        /\ v \in DOMAIN data[i]
        /\ \A p \in P : p \in DOMAIN data[i] /\ data[i][p] = q[p]}

\* the CPD c is the Laplace-smoothed table of v given the parents P in data
IsSmoothedTable(c, data, v, P) ==
    /\ c.Variable = v
    /\ c.Evidence = SortStrings(P)
    /\ c.VariableCard = MaxObservedPlusOne(data, v)
    /\ DOMAIN c.EvidenceCard = P
    /\ \A p \in P : c.EvidenceCard[p] = MaxObservedPlusOne(data, p)
    /\ Len(c.Values) = SizeOf(c.Evidence, c.EvidenceCard)
    /\ \A r \in DOMAIN c.Values : Len(c.Values[r]) = c.VariableCard /\ RSum(c.Values[r]) = ROne
    /\ \A q \in AssignmentsOf(P, c.EvidenceCard) :
          \A s \in 0..(c.VariableCard - 1) :
              c.Values[RowOf(c, q) + 1][s + 1] =
                  Rat(Cardinality({i \in RowsShowing(data, v, P, q) : data[i][v] = s}) + 1,
                      Cardinality(RowsShowing(data, v, P, q)) + c.VariableCard)

\* C16: after Fit(data) succeeds, every node v has a tabular CPD over the
\* DAG's sorted parents, with cardinalities the maximum observed value plus
\* one, each entry being (the number of rows that contain v and all its
\* parents and show that parent configuration with that state of v, plus 1)
\* over (the number of such rows with that parent configuration, plus the
\* cardinality of v); rows missing v or a parent are skipped for that CPD
\* only, and every row sums to 1.
C16_FitLearnsSmoothedTables ==
    (fit.op = "Fit" /\ fit.status = "ok") =>
        \A v \in net.DAG.nodes :
            /\ v \in DOMAIN net.CPDs
            /\ IsSmoothedTable(net.CPDs[v], fit.data, v, ParentsOf(net.DAG, v))

\* Fit succeeded on a three-node network with an edge, on two rows of which
\* one lacks the parent and holds the child, and the child's table is not
\* uniform
C16_Witness ==
    /\ fit.op = "Fit"
    /\ fit.status = "ok"
    /\ net.DAG.nodes = VarNames
    /\ Len(fit.data) = MaxRows
    /\ \E a \in VarNames, b \in VarNames :
          /\ a \in ParentsOf(net.DAG, b)
          /\ \E i \in DOMAIN fit.data : b \in DOMAIN fit.data[i] /\ a \notin DOMAIN fit.data[i]
          /\ \E r \in DOMAIN net.CPDs[b].Values :
                net.CPDs[b].Values[r][1] # Rat(1, net.CPDs[b].VariableCard)

-----------------------------------------------------------------------------
(* Reference notions the structure learning properties are stated with *)

\* the pass over the nodes at the current conditioning set size has ended
EndOfPass == pc.at = "nodes" /\ pc.x > Len(pc.Variables)

SubsetsOfSize(S, k) == {C \in SUBSET S : Cardinality(C) = k}

\* the run has tested the pair given the set
Tested(pair, given) == \E t \in pc.tests : t.pair = pair /\ t.given = given

\* x - y is an edge of the undirected graph of the run
Adjacent(x, y) == UndirectedHasEdge(pc.ug, x, y)

\* C17: when a pass at conditioning set size k ends, every edge x - y that
\* is left has been tested given every size-k subset of the neighbours of x
\* without y, so that no edge with a separating subset of size k is left:
\* removing one edge ends the tests of that edge only.
C17_PassTestsEveryRemainingEdge ==
    EndOfPass =>
        \A x \in pc.ug.nodes : \A y \in pc.ug.edges[x] :
            \A C \in SubsetsOfSize(pc.ug.edges[x] \ {y}, pc.condSetSize) :
                Tested({x, y}, C)


\* Rule 0 has run and Meek's rules have not begun
AfterRule0 == pc.at = "meek"

\* the arrow a -> z is recorded in the map of oriented edges
Recorded(a, z) == z \in pc.oriented[a]

\* x - z - y in the skeleton with x and y not adjacent
UnshieldedTriple(x, z, y) ==
    x # y /\ Adjacent(x, z) /\ Adjacent(z, y) /\ ~Adjacent(x, y)

\* z is in the separating set recorded for x and y
InSepSet(z, x, y) == z \in Range(sepSetOf(pc.sepSets, x, y))

\* the separating set of a removed edge is the one recorded at its removal,
\* for both orders of the pair
SepSetsRecorded ==
    \A x, y \in pc.ug.nodes :
        x # y /\ ~Adjacent(x, y) =>
            /\ sepSetOf(pc.sepSets, x, y) = sepSetOf(pc.sepSets, y, x)
            /\ \E t \in pc.tests :
                   /\ t.independent
                   /\ t.pair = {x, y}
                   /\ t.given = Range(sepSetOf(pc.sepSets, x, y))

\* C18 as stated: after Rule 0, for every triple x - z - y with x and y not
\* adjacent, x -> z and y -> z are both recorded if and only if z is not in
\* the separating set recorded for x and y.
C18_VStructureIffNotInSepSet ==
    AfterRule0 =>
        \A x, y, z \in pc.ug.nodes :
            UnshieldedTriple(x, z, y) =>
                ((Recorded(x, z) /\ Recorded(y, z)) <=> ~InSepSet(z, x, y))

\* C18, amended: after Rule 0, for every triple x - z - y with x and y not
\* adjacent, x -> z and y -> z are both recorded if z is not in the
\* separating set recorded for x and y at the removal of their edge; and an
\* arrow a -> z is recorded only if a - z - b is such a triple for some b.
C18_VStructureIfNotInSepSet ==
    AfterRule0 =>
        /\ SepSetsRecorded
        /\ \A x, y, z \in pc.ug.nodes :
               UnshieldedTriple(x, z, y) /\ ~InSepSet(z, x, y) =>
                   Recorded(x, z) /\ Recorded(y, z)
        /\ \A a, z \in pc.ug.nodes :
               Recorded(a, z) =>
                   \E b \in pc.ug.nodes :
                       UnshieldedTriple(a, z, b) /\ ~InSepSet(z, a, b)

\* a skeleton with one triple whose middle node is outside the separating
\* set, both arrows recorded, and one whose middle node is inside it, not
\* both arrows recorded
C18_Witness ==
    /\ AfterRule0
    /\ \E x, y, z \in pc.ug.nodes :
           /\ UnshieldedTriple(x, z, y)
           /\ ~InSepSet(z, x, y)
           /\ Recorded(x, z) /\ Recorded(y, z)
    /\ \E x, y, z \in pc.ug.nodes :
           /\ UnshieldedTriple(x, z, y)
           /\ InSepSet(z, x, y)
           /\ ~(Recorded(x, z) /\ Recorded(y, z))


\* Estimate has returned pc.dag
Returned == pc.at = "done"

\* the nodes reached from S by one or more arrows of d
RECURSIVE ReachedFrom(_, _)
ReachedFrom(d, S) ==
    LET step == S \cup UNION {EdgesOf(d, n) : n \in S}
    IN  IF step = S THEN S ELSE ReachedFrom(d, step)

Cyclic(d) == \E n \in d.nodes : n \in ReachedFrom(d, EdgesOf(d, n))

\* the skeleton edge a - b is in the DAG in exactly one direction
InOneDirection(a, b) == HasEdge(pc.dag, a, b) # HasEdge(pc.dag, b, a)

\* a - b was still unoriented when Meek's rules ended
LeftUnoriented(a, b) == b \in pc.unoriented[a] /\ a \in pc.unoriented[b]

\* C19: the DAG Estimate returns has no directed cycle, holds every edge of
\* the skeleton in exactly one direction, an edge left unoriented from the
\* smaller name to the larger, and holds no edge between nodes that are not
\* adjacent in the skeleton.
C19_ReturnedDAGOrientsTheSkeleton ==
    Returned =>
        /\ pc.dag.nodes = pc.ug.nodes
        /\ ~Cyclic(pc.dag)
        /\ \A a, b \in pc.ug.nodes :
               /\ Adjacent(a, b) => InOneDirection(a, b)
               /\ LeftUnoriented(a, b) /\ a < b => HasEdge(pc.dag, a, b)
               /\ ~Adjacent(a, b) => ~HasEdge(pc.dag, a, b)


\* one step of orientEdges in which every range statement over a map takes
\* the least key left
sortedStep(p) ==
    IF p.at = "vstructures" THEN orientVStructures(p)
    ELSE IF p.at = "meek" THEN enterMeek(p)
    ELSE IF p.at = "round" THEN nextRound(p)
    ELSE IF p.js # {}
         THEN LET j == Min(p.js)
              IN  IF p.at = "rules" THEN meekVisit(p, j, Min(firstChoices(p, j)))
                  ELSE IF p.at = "oriented" THEN addOriented(p, j)
                  ELSE addUnoriented(p, j)
         ELSE IF p.keys # {} THEN rangeKey(p, Min(p.keys))
         ELSE rangeEnd(p)

RECURSIVE sortedRun(_)
sortedRun(p) == IF p.at = "done" THEN p ELSE sortedRun(sortedStep(p))

\* orientEdges called again on the skeleton and the separating sets of the
\* run, walking every map in sorted order
SortedOrientation ==
    sortedRun([pc EXCEPT !.at = "vstructures", !.oriented = EmptyMap,
                         !.unoriented = EmptyMap, !.dag = NewDAG])

\* C20: the edges of the DAG Estimate returns are those of any other run on
\* the same data, in particular of the run that walks every map in sorted
\* order, whatever order this run walked its maps in.
C20_EstimateIsDeterministic ==
    Returned => pc.dag.edges = SortedOrientation.dag.edges

-----------------------------------------------------------------------------
(* Reference notions the factor canonicality properties are stated with *)

\* C24: the factor Multiply returns and the factor Marginalize returns list
\* their variables in lexicographic order, whatever the order of the
\* variables of the operands.
C24_ResultVariablesSorted ==
    (facRet.op \in {"Multiply", "Marginalize"} /\ facRet.ret.status = "ok") =>
        Ascending(facRet.ret.factor.Variables)

-----------------------------------------------------------------------------
(* Ancestors and Descendants on any DAG the calls can build *)

\* C25: after any sequence of AddNode, AddEdge and RemoveEdge calls, for all
\* nodes u and v, Descendants(u) contains v exactly when Ancestors(v)
\* contains u, and neither list contains the node it was asked about.
C25_DescendantsMirrorAncestors ==
    \A u \in Names :
        LET descendants == Range(Descendants(dag, u))
            ancestors == Range(Ancestors(dag, u))
        IN  /\ u \notin descendants
            /\ u \notin ancestors
            /\ \A v \in Names : (v \in descendants) <=> (u \in Range(Ancestors(dag, v)))

\* the chain A -> B -> C, with an AddEdge refused on the way: C is a
\* descendant of A only through B, and A an ancestor of C only through B
C25_Witness ==
    /\ dag.nodes = Names
    /\ Descendants(dag, 1) = <<2, 3>>
    /\ Ancestors(dag, 3) = <<1, 2>>
    /\ ~HasEdge(dag, 1, 3)
    /\ ~allAddsOk

-----------------------------------------------------------------------------
(* Normalize *)

-----------------------------------------------------------------------------
(* The record of oriented and unoriented edges *)

\* orientEdges has filled its two maps: Rule 0 is done, Meek's rules run or
\* have run
Orienting == pc.at \in {"meek", "round", "rules"}

\* x - y is recorded as undirected in at least one direction
Undirected(x, y) == y \in pc.unoriented[x] \/ x \in pc.unoriented[y]

\* C30: at every point of the orientation, each edge {x, y} of the skeleton
\* is in exactly one of three states: undirected (in both directions of the
\* unoriented map), oriented x -> y, or oriented y -> x; no edge is oriented
\* in both directions and none is both oriented and undirected.
C30_EdgeInExactlyOneState ==
    Orienting =>
        \A x, y \in Range(pc.Variables) :
            Adjacent(x, y) =>
                \/ LeftUnoriented(x, y) /\ ~Recorded(x, y) /\ ~Recorded(y, x)
                \/ Recorded(x, y) /\ ~Recorded(y, x) /\ ~Undirected(x, y)
                \/ Recorded(y, x) /\ ~Recorded(x, y) /\ ~Undirected(x, y)

-----------------------------------------------------------------------------
(* Meek propagation: termination and the state it stops in *)

\* the loop for changed { .. } has been left
MeekStopped == pc.at \in {"oriented", "unoriented", "done"}

\* the edges recorded as undirected, as sets of two nodes
UndirectedEdges(p) ==
    UNION {{{a, b} : b \in p.unoriented[a]} : a \in DOMAIN p.unoriented}

\* R1 .. R4 of the propagation, for the undirected edge i - j
ApplicableR1(i, j) ==
    \E k \in Range(pc.Variables) : k # j /\ Recorded(k, i) /\ ~Adjacent(k, j)

ApplicableR2(i, j) ==
    \E k \in Range(pc.Variables) : k # j /\ Recorded(i, k) /\ Recorded(k, j)

ApplicableR3(i, j) ==
    \E k, l \in Range(pc.Variables) :
        /\ k # l /\ k # j /\ l # j
        /\ k \in pc.unoriented[i] /\ Recorded(k, j)
        /\ l \in pc.unoriented[i] /\ Recorded(l, j)
        /\ ~Adjacent(k, l)

ApplicableR4(i, j) ==
    \E k, l \in Range(pc.Variables) :
        /\ k # j /\ l # j
        /\ k \in pc.unoriented[i] /\ Recorded(k, l) /\ Recorded(l, j)
        /\ ~Adjacent(k, j)

NoRuleApplicable ==
    \A i, j \in Range(pc.Variables) :
        LeftUnoriented(i, j) =>
            ~(ApplicableR1(i, j) \/ ApplicableR2(i, j) \/ ApplicableR3(i, j)
                \/ ApplicableR4(i, j))

\* a step of the propagation that records an arrow takes exactly one edge
\* out of the undirected ones
RuleRemovesOneEdge ==
    (pc.at = "rules" /\ pc'.oriented # pc.oriented) =>
        /\ UndirectedEdges(pc') \subseteq UndirectedEdges(pc)
        /\ Cardinality(UndirectedEdges(pc) \ UndirectedEdges(pc')) = 1

-----------------------------------------------------------------------------
\* C23: after any sequence of AddCPD, AddGaussianCPD and Fit calls, whenever
\* CheckModel returns nil, every variable v of the network has VariableType[v]
\* Discrete exactly when it has a tabular CPD and Continuous exactly when it
\* has a Linear-Gaussian CPD.
C23_TypesFollowCPDs ==
    ~CheckModel(net) =>
        \A v \in net.DAG.nodes :
            /\ IsDiscrete(net, v) <=> v \in DOMAIN net.CPDs
            /\ IsContinuous(net, v) <=> v \in DOMAIN net.GaussianCPDs


-----------------------------------------------------------------------------
\* C27: when FitMixed learns a Linear-Gaussian CPD for a node with p parents,
\* none of them discrete, from n rows that hold the node and all its parents,
\* and n <= p + 1, the call fails for want of data and the Gaussian CPD of
\* the node is the one it had before.
GaussianStep(step) == step.kind = "gaussian" /\ ~step.discreteParent

TooFewRowsRefused ==
    fit'.op = "FitMixed" =>
        \A i \in DOMAIN fit'.steps :
            LET step == fit'.steps[i]
            IN  (GaussianStep(step) /\ step.n <= Len(step.parents) + 1) =>
                    /\ step.status \in {"insufficient", "nodata"}
                    /\ fit'.status = step.status
                    /\ MapGet(net'.GaussianCPDs, step.node) =
                           MapGet(net.GaussianCPDs, step.node)

C27_TooFewRowsRefused == [][TooFewRowsRefused]_vars


-----------------------------------------------------------------------------
\* C21: MixedVariableElimination.Query returns an error and no result when
\* the network is all-discrete and continuous variables are queried, when it
\* is all-continuous and discrete variables are queried, and when it is mixed
\* and variables of both kinds are queried; on an all-discrete network with
\* no continuous query variable it returns what VariableElimination.Query
\* returns for the discrete query variables and the discrete evidence.
AllTabular(bn) ==
    \A node \in bn.DAG.nodes : node \in DOMAIN bn.CPDs /\ node \notin DOMAIN bn.GaussianCPDs

AllGaussian(bn) ==
    \A node \in bn.DAG.nodes : node \in DOMAIN bn.GaussianCPDs /\ node \notin DOMAIN bn.CPDs

MixedRefused == mix.ret.status = "err" /\ mix.ret.result = NoMixedResult

\* the discrete engine's answer to the discrete part of the last mixed query
DiscreteAnswer == Query(net, mix.order, mix.discreteVars, mix.evidence.Discrete)

-----------------------------------------------------------------------------
\* C22: every successful MixedVariableElimination.Query with continuous query
\* variables and no discrete ones returns a Gaussian over the query
\* variables: Mean and Covariance have an entry for every query variable and
\* for no other variable, and Values is empty.  The query variables are
\* taken to be nodes with a Gaussian CPD and the evidence to be on other
\* nodes.
ContinuousQueryOnNodes ==
    /\ mix.op = "MixedQuery"
    /\ mix.discreteVars = {}
    /\ mix.continuousVars # {}
    /\ mix.continuousVars \subseteq DOMAIN net.GaussianCPDs
    /\ DOMAIN mix.evidence.Continuous \subseteq net.DAG.nodes \ mix.continuousVars
    /\ DOMAIN mix.evidence.Discrete \subseteq net.DAG.nodes \ mix.continuousVars

C22_GaussianOverQuery ==
    (ContinuousQueryOnNodes /\ mix.ret.status = "ok") =>
        /\ DOMAIN mix.ret.result.Mean = mix.continuousVars
        /\ DOMAIN mix.ret.result.Covariance = mix.continuousVars
        /\ \A v \in mix.continuousVars :
              DOMAIN mix.ret.result.Covariance[v] = mix.continuousVars
        /\ mix.ret.result.Values = <<>>


-----------------------------------------------------------------------------
(* C28: a query leaves the model alone *)

QueryCalled == mix'.op \in {"Query", "MAP", "MixedQuery"}

\* the call recorded in mix' made again, on the model as the call left it
AgainResult ==
    IF mix'.op = "Query"
    THEN queryReturn(Query(net', mix'.order, mix'.discreteVars, mix'.evidence.Discrete))
    ELSE IF mix'.op = "MAP"
    THEN mapReturn(MAP(net', mix'.order, mix'.discreteVars, mix'.evidence.Discrete))
    ELSE mixedReturn(MixedQuery(net', mix'.order, mix'.gorder, mix'.discreteVars,
                                mix'.continuousVars, mix'.evidence))

QueryLeavesModel ==
    QueryCalled =>
        /\ net'.DAG = net.DAG
        /\ net'.CPDs = net.CPDs
        /\ net'.GaussianCPDs = net.GaussianCPDs
        /\ net'.VariableType = net.VariableType
        /\ net'.Cardinality = net.Cardinality
        /\ mix'.shares = {}
        /\ AgainResult = mix'.ret

====
